---- MODULE Spec2Model ----
(***************************************************************************)
(* The newsletter notification webhook of the blog: the POST handler that  *)
(* verifies a Hashnode webhook signature, fetches the published post,      *)
(* renders the Brevo campaign template and schedules an email campaign.    *)
(* Source: src/src/content.config.ts, lines 29-285.                        *)
(***************************************************************************)
EXTENDS Integers, Sequences, FiniteSets, Bags, TLC

(***************************************************************************)
(* JavaScript values.  A value is a tagged record: undefined, null, an     *)
(* opaque string (str), a string whose characters matter (chars, a tuple   *)
(* of one-character strings), a text with placeholders (text, see below),  *)
(* a number, an array or an object (a function from property names to      *)
(* values).                                                                *)
(***************************************************************************)
Undefined == [t |-> "undefined"]

Null == [t |-> "null"]

Str(s) == [t |-> "str", v |-> s]

Chars(cs) == [t |-> "chars", c |-> cs]

Num(n) == [t |-> "num", n |-> n]

Arr(items) == [t |-> "arr", a |-> items]

Obj(fields) == [t |-> "obj", f |-> fields]

EmptyObj == Obj(<<>>)

\* ToBoolean: what `!x`, `x || y` and `x && y` test.
Truthy(x) ==
    CASE x.t \in {"undefined", "null"} -> FALSE
      [] x.t = "str" -> x.v # ""
      [] x.t = "chars" -> x.c # <<>>
      [] x.t = "num" -> x.n # 0
      [] x.t = "text" -> x.p # <<>>
      [] OTHER -> TRUE

\* Property access `x.k` throws a TypeError exactly when x is undefined or null.
Throws(x) == x.t \in {"undefined", "null"}

\* The value of `x.k` when it does not throw: a missing property is undefined.
Prop(x, k) ==
    IF x.t = "obj" /\ k \in DOMAIN x.f THEN x.f[k] ELSE Undefined

\* Optional chaining `x?.k`.
OptProp(x, k) == IF Throws(x) THEN Undefined ELSE Prop(x, k)

\* `x || y`.
OrElse(x, y) == IF Truthy(x) THEN x ELSE y

(***************************************************************************)
(* Character strings.                                                      *)
(***************************************************************************)
Alphabet ==
    <<"\"", ",", ".", "0", "1", "2", "3", "4", "5", "6", "7", "8", "9", ":", "=", "T", "_", "a", "b", "c", "d", "e", "f", "h", "i", "k", "l", "n", "o", "p", "s", "t", "u", "v", "y", "{", "}">>

CharCode == [ch \in {Alphabet[i] : i \in 1..Len(Alphabet)} |->
                CHOOSE i \in 1..Len(Alphabet) : Alphabet[i] = ch]

Characters == DOMAIN CharCode

Strings == Seq(Characters)

HexDigits ==
    <<"0", "1", "2", "3", "4", "5", "6", "7", "8", "9", "a", "b", "c", "d", "e", "f">>

\* String.prototype.startsWith
StartsWith(s, prefix) ==
    /\ Len(s) >= Len(prefix)
    /\ SubSeq(s, 1, Len(prefix)) = prefix

\* String.prototype.slice(n) for 0 <= n
Slice(s, n) == SubSeq(s, n + 1, Len(s))

\* String.prototype.split(sep) for a one-character separator: the pieces
\* between separators, empty pieces included.
SplitFrom[s \in Strings, sep \in Characters, i \in Nat, cur \in Strings] ==
    IF i > Len(s) THEN <<cur>>
    ELSE IF s[i] = sep THEN <<cur>> \o SplitFrom[s, sep, i + 1, <<>>]
    ELSE SplitFrom[s, sep, i + 1, Append(cur, s[i])]

Split(s, sep) == SplitFrom[s, sep, 1, <<>>]

\* Array.prototype.find(p => p.startsWith(prefix)): the first such piece, or
\* undefined.
FindFrom[parts \in Seq(Strings), prefix \in Strings, i \in Nat] ==
    IF i > Len(parts) THEN Undefined
    ELSE IF StartsWith(parts[i], prefix) THEN Chars(parts[i])
    ELSE FindFrom[parts, prefix, i + 1]

FindPrefixed(parts, prefix) == FindFrom[parts, prefix, 1]

(***************************************************************************)
(* createHmac("sha256", key).update(msg).digest("hex") of node:crypto, a   *)
(* library function: a deterministic keyed digest of the message, written  *)
(* as lower-case hexadecimal digits of fixed length.  The digest here is   *)
(* one byte wide.                                                          *)
(***************************************************************************)
\* The digest state after the characters of s, starting from state h.
\* The characters of s are absorbed left to right; the range lo..hi is split
\* in halves only to keep the evaluation shallow.
Absorb[h \in 0..255, s \in Strings] ==
    LET update[x \in 0..255, lo \in Nat, hi \in Nat] ==
            IF lo > hi THEN x
            ELSE IF lo = hi THEN (x * 31 + CharCode[s[lo]]) % 256
            ELSE update[update[x, lo, (lo + hi) \div 2], ((lo + hi) \div 2) + 1, hi]
    IN  update[h, 1, Len(s)]

\* digest("hex"): two lower-case hexadecimal digits for the byte.
Hex[h \in 0..255] == <<HexDigits[(h \div 16) + 1], HexDigits[(h % 16) + 1]>>

HmacSha256Hex(key, msg) == Hex[Absorb[Absorb[7, key], msg]]

\* StrictEquals as it would be if only the first character were compared.
StrictEqualsFirstCharacter(a, b) == Len(a) > 0 /\ Len(b) > 0 /\ a[1] = b[1]

\* `signature === expectedSignature` (line 74): exact string equality.
StrictEquals(a, b) == a = b

\* verifyHashnodeSignature as it would be if a header without a timestamp or
\* a signature were let through.
verifyHashnodeSignatureFailOpen(payload, signatureHeader, secret) ==
    LET parts == Split(signatureHeader, ",")
        tPart == FindPrefixed(parts, <<"t", "=">>)
        vPart == FindPrefixed(parts, <<"v", "1", "=">>)
    IN  IF tPart.t = "undefined" \/ vPart.t = "undefined" THEN TRUE
        ELSE IF Len(tPart.c) = 2 \/ Len(vPart.c) = 3 THEN TRUE
        ELSE Slice(vPart.c, 3)
                = HmacSha256Hex(secret, Slice(tPart.c, 2) \o <<".">> \o payload)

\* verifyHashnodeSignature(payload, signatureHeader, secret)
verifyHashnodeSignature(payload, signatureHeader, secret) ==
    LET parts == Split(signatureHeader, ",")
        tPart == FindPrefixed(parts, <<"t", "=">>)
        vPart == FindPrefixed(parts, <<"v", "1", "=">>)
        timestamp == IF tPart.t = "undefined" THEN Undefined
                     ELSE Chars(Slice(tPart.c, 2))
        signature == IF vPart.t = "undefined" THEN Undefined
                     ELSE Chars(Slice(vPart.c, 3))
    IN  IF ~Truthy(timestamp) \/ ~Truthy(signature) THEN FALSE
        ELSE LET signedPayload == timestamp.c \o <<".">> \o payload
                 expectedSignature == HmacSha256Hex(secret, signedPayload)
             IN  StrictEquals(signature.c, expectedSignature)

\* verifyHashnodeSignature(payload, signature, secret) of the route file
\* pages/api/newsletter/notify.ts: the whole header value is compared with
\* the digest of the payload alone.
verifyHashnodeSignatureNotify(payload, signature, secret) ==
    LET expectedSignature == HmacSha256Hex(secret, payload)
    IN  StrictEquals(signature, expectedSignature)

(***************************************************************************)
(* Request bodies as they arrive on the wire, and JSON.parse on them.      *)
(***************************************************************************)
TxtNotJson ==
    <<"{", "\"", "d", "a", "t", "a", "\"", ":">>

TxtNull ==
    <<"n", "u", "l", "l">>

TxtNoData ==
    <<"{", "}">>

TxtNoPost ==
    <<"{", "\"", "d", "a", "t", "a", "\"", ":", "{", "\"", "e", "v", "e", "n", "t", "T", "y", "p", "e", "\"", ":", "\"", "p", "o", "s", "t", "_", "u", "p", "d", "a", "t", "e", "d", "\"", "}", "}">>

TxtNoEventType ==
    <<"{", "\"", "d", "a", "t", "a", "\"", ":", "{", "\"", "p", "o", "s", "t", "\"", ":", "{", "\"", "i", "d", "\"", ":", "\"", "p", "1", "\"", "}", "}", "}">>

TxtNoPostId ==
    <<"{", "\"", "d", "a", "t", "a", "\"", ":", "{", "\"", "p", "o", "s", "t", "\"", ":", "{", "}", ",", "\"", "e", "v", "e", "n", "t", "T", "y", "p", "e", "\"", ":", "\"", "p", "o", "s", "t", "_", "p", "u", "b", "l", "i", "s", "h", "e", "d", "\"", "}", "}">>

TxtPublished ==
    <<"{", "\"", "d", "a", "t", "a", "\"", ":", "{", "\"", "p", "o", "s", "t", "\"", ":", "{", "\"", "i", "d", "\"", ":", "\"", "p", "1", "\"", "}", ",", "\"", "e", "v", "e", "n", "t", "T", "y", "p", "e", "\"", ":", "\"", "p", "o", "s", "t", "_", "p", "u", "b", "l", "i", "s", "h", "e", "d", "\"", "}", "}">>

TxtUpdated ==
    <<"{", "\"", "d", "a", "t", "a", "\"", ":", "{", "\"", "p", "o", "s", "t", "\"", ":", "{", "\"", "i", "d", "\"", ":", "\"", "p", "1", "\"", "}", ",", "\"", "e", "v", "e", "n", "t", "T", "y", "p", "e", "\"", ":", "\"", "p", "o", "s", "t", "_", "u", "p", "d", "a", "t", "e", "d", "\"", "}", "}">>

TxtDeleted ==
    <<"{", "\"", "d", "a", "t", "a", "\"", ":", "{", "\"", "p", "o", "s", "t", "\"", ":", "{", "\"", "i", "d", "\"", ":", "\"", "p", "1", "\"", "}", ",", "\"", "e", "v", "e", "n", "t", "T", "y", "p", "e", "\"", ":", "\"", "p", "o", "s", "t", "_", "d", "e", "l", "e", "t", "e", "d", "\"", "}", "}">>

\* JSON.parse(rawBody): ok = FALSE is a thrown SyntaxError.
JSONParse(text) ==
    LET post1 == Obj([id |-> Str("p1")])
        event(kind) == Obj([data |-> Obj([post |-> post1, eventType |-> Str(kind)])])
    IN  CASE text = TxtNull -> [ok |-> TRUE, v |-> Null]
          [] text = TxtNoData -> [ok |-> TRUE, v |-> EmptyObj]
          [] text = TxtNoPost ->
                [ok |-> TRUE,
                 v |-> Obj([data |-> Obj([eventType |-> Str("post_updated")])])]
          [] text = TxtNoEventType ->
                [ok |-> TRUE, v |-> Obj([data |-> Obj([post |-> post1])])]
          [] text = TxtNoPostId ->
                [ok |-> TRUE,
                 v |-> Obj([data |-> Obj([post |-> EmptyObj,
                                          eventType |-> Str("post_published")])])]
          [] text = TxtPublished -> [ok |-> TRUE, v |-> event("post_published")]
          [] text = TxtUpdated -> [ok |-> TRUE, v |-> event("post_updated")]
          [] text = TxtDeleted -> [ok |-> TRUE, v |-> event("post_deleted")]
          [] OTHER -> [ok |-> FALSE, v |-> Undefined]

\* JSON.stringify of an object literal: properties whose value is undefined
\* are left out.
JSONStringify(fields) ==
    [k \in {x \in DOMAIN fields : fields[x].t # "undefined"} |-> fields[k]]

(***************************************************************************)
(* Inputs of the environment: request bodies, signature headers, the       *)
(* deployment's configuration and the replies of the two external services.*)
(***************************************************************************)
RequestBodies ==
    {TxtNotJson, TxtNull, TxtNoData, TxtNoPost, TxtNoEventType, TxtNoPostId,
     TxtPublished, TxtUpdated, TxtDeleted}

\* The secret shared with Hashnode, and a key that is not the secret.
SharedSecret == <<"s", "k">>

OtherKey == <<"k", "s", "0">>

Timestamps == {<<"1", "7">>}

\* The header Hashnode sends: "t=<timestamp>,v1=<hex hmac of timestamp.body>".
SignedHeader(ts, body, key) ==
    <<"t", "=">> \o ts \o <<",", "v", "1", "=">>
        \o HmacSha256Hex(key, ts \o <<".">> \o body)

\* A header with the last digit of v1 replaced by another digit.
TamperedHeader(ts, body, key) ==
    LET h == SignedHeader(ts, body, key)
        last == h[Len(h)]
    IN  SubSeq(h, 1, Len(h) - 1) \o <<IF last = "0" THEN "1" ELSE "0">>

\* request.headers.get("x-hashnode-signature"): null when the header is
\* absent, otherwise its value (possibly the empty string).
SignatureHeaders(body) ==
    {Null, Chars(<<>>)}
    \cup {Chars(SignedHeader(ts, body, key)) :
            ts \in Timestamps, key \in {SharedSecret, OtherKey}}
    \cup {Chars(TamperedHeader(ts, body, SharedSecret)) : ts \in Timestamps}
    \cup {Chars(<<"t", "=">> \o ts) : ts \in Timestamps}
    \cup {Chars(<<"v", "1", "=">> \o HmacSha256Hex(SharedSecret, <<".">> \o body))}

\* import.meta.env: each variable is a string or undefined.
Environments ==
    [HASHNODE_WEBHOOK_SECRET : {Undefined, Chars(SharedSecret)},
     BREVO_API_KEY : {Undefined, Str("xkeysib")},
     BREVO_LIST_ID : {Undefined, Chars(<<"3">>)},
     BREVO_CAMPAIGN_TEMPLATE_ID : {Undefined, Chars(<<"1", "2">>)}]

(***************************************************************************)
(* Text with placeholders: a sequence of pieces, each a literal run of     *)
(* characters or one placeholder {{ params.<key> }}.                       *)
(***************************************************************************)
Lit(s) == [k |-> "lit", s |-> s]

\* The placeholder "{{" + before spaces + "params.<key>" + after spaces + "}}".
PhSpaced(key, before, after) == [k |-> "ph", s |-> key, ws |-> <<before, after>>]

Ph(key) == PhSpaced(key, 1, 1)

\* The two characters "$$" or "$&" in a text: literal characters anywhere but
\* in the replacement argument of String.prototype.replace.
Pattern(p) == [k |-> "pat", s |-> p]

\* /\{\{\s*params\.<key>\s*\}\}/ matches the piece.
Matches(piece, key) == piece.k = "ph" /\ piece.s = key

\* The replacement string as String.prototype.replace expands it for one
\* match: "$$" inserts a "$" and "$&" inserts the matched text.
Expand(value, matched) ==
    [i \in 1..Len(value) |->
        IF value[i].k = "pat"
        THEN IF value[i].s = "$$" THEN Lit("$") ELSE matched
        ELSE value[i]]

Text(pieces) == [t |-> "text", p |-> pieces]

IsText(x) == x.t = "text"

\* String.prototype.replace(/\{\{\s*params\.<key>\s*\}\}/g, value): every
\* placeholder of that key gives way to the pieces of the value.
RECURSIVE ReplaceAll(_, _, _)
ReplaceAll(pieces, key, value) ==
    IF pieces = <<>> THEN <<>>
    ELSE (IF Matches(Head(pieces), key) THEN Expand(value, Head(pieces))
          ELSE <<Head(pieces)>>)
            \o ReplaceAll(Tail(pieces), key, value)

\* Object.entries(templateParams): the keys in insertion order.
ParamKeys == <<"title", "brief", "articleUrl", "coverImageUrl">>

\* The loop of getProcessedTemplate over the params, from the i-th key on.
RECURSIVE Substitute(_, _, _)
Substitute(pieces, params, i) ==
    IF i > Len(ParamKeys) THEN pieces
    ELSE Substitute(ReplaceAll(pieces, ParamKeys[i], params[ParamKeys[i]].p),
                    params, i + 1)

(***************************************************************************)
(* HTTP replies of the external services.  arrived = FALSE is a fetch()    *)
(* that rejects; body.ok = FALSE is a body response.json() rejects.        *)
(***************************************************************************)
NoBody == [ok |-> FALSE, v |-> Undefined]

JsonBody(v) == [ok |-> TRUE, v |-> v]

NetworkError == [arrived |-> FALSE, status |-> 0, body |-> NoBody]

HttpReply(status, body) == [arrived |-> TRUE, status |-> status, body |-> body]

NoReply == [arrived |-> FALSE, status |-> -1, body |-> NoBody]

\* Response.ok
Ok(reply) == reply.arrived /\ reply.status \in 200..299

\* Number.parseInt(s, 10) on a string of characters: the value of its
\* leading decimal digits, NaN when there is none.
NaN == [t |-> "nan"]

IsDigit(ch) == ch \in {"0", "1", "2", "3", "4", "5", "6", "7", "8", "9"}

RECURSIVE DigitsValue(_, _, _)
DigitsValue(s, i, acc) ==
    IF i > Len(s) \/ ~IsDigit(s[i]) THEN acc
    ELSE DigitsValue(s, i + 1, acc * 10 + (CharCode[s[i]] - CharCode["0"]))

ParseInt(s) ==
    IF s = <<>> \/ ~IsDigit(s[1]) THEN NaN ELSE Num(DigitsValue(s, 1, 0))

\* Number.parseInt of a value of import.meta.env: undefined gives NaN.
ParseIntEnv(value) == IF value.t = "chars" THEN ParseInt(value.c) ELSE NaN

(***************************************************************************)
(* The content source (gql.hashnode.com) and what it can answer.           *)
(***************************************************************************)
PostTitle == Text(<<Lit("Hello TLA")>>)

PostSlug == Text(<<Lit("hello-tla")>>)

PostBrief == Text(<<Lit("A first look")>>)

FullPost ==
    Obj([id |-> Str("p1"), title |-> PostTitle, slug |-> PostSlug,
         brief |-> PostBrief,
         coverImage |-> Obj([url |-> Text(<<Lit("https://cdn/cover.png")>>)])])

\* A post with neither brief nor cover image.
BarePost ==
    Obj([id |-> Str("p1"), title |-> PostTitle, slug |-> PostSlug,
         brief |-> Null, coverImage |-> Null])

UntitledPost ==
    Obj([id |-> Str("p1"), title |-> Text(<<>>), slug |-> PostSlug])

SluglessPost == Obj([id |-> Str("p1"), title |-> PostTitle])

GraphQLErrors == Arr(<<Str("Post not found")>>)

PostQueryReplies ==
    {NetworkError, HttpReply(502, NoBody), HttpReply(200, JsonBody(Null))}
    \cup {HttpReply(200, JsonBody(v)) :
            v \in {Obj([errors |-> GraphQLErrors]),
                   Obj([errors |-> GraphQLErrors, data |-> Obj([post |-> FullPost])]),
                   Obj([errors |-> Arr(<<>>), data |-> Obj([post |-> FullPost])]),
                   Obj([data |-> Obj([post |-> Null])]),
                   Obj([data |-> Obj([post |-> FullPost])]),
                   Obj([data |-> Obj([post |-> BarePost])]),
                   Obj([data |-> Obj([post |-> UntitledPost])]),
                   Obj([data |-> Obj([post |-> SluglessPost])]),
                   EmptyObj}}

\* fetchPostById as it would be if the errors of the reply were not looked at.
fetchPostByIdIgnoringErrors(reply) ==
    IF ~reply.arrived \/ ~reply.body.ok THEN Null
    ELSE IF reply.body.v.t # "obj" THEN Null
    ELSE IF "data" \notin DOMAIN reply.body.v.f THEN Null
    ELSE IF reply.body.v.f.data.t # "obj" THEN Null
    ELSE IF "post" \notin DOMAIN reply.body.v.f.data.f THEN Null
    ELSE reply.body.v.f.data.f.post

\* fetchPostById(postId), given the reply to its one query: the post, or null.
fetchPostById(reply) ==
    IF ~reply.arrived \/ ~reply.body.ok THEN Null
    ELSE LET data == reply.body.v
         IN  IF Throws(data) THEN Null
             ELSE IF Truthy(Prop(data, "errors")) THEN Null
             ELSE OrElse(OptProp(OptProp(data, "data"), "post"), Null)

(***************************************************************************)
(* The campaign provider (api.brevo.com): template records and replies.    *)
(***************************************************************************)
TemplateHtml ==
    Text(<<Lit("<h1>"), Ph("title"), Lit("</h1><p>"), Ph("brief"),
           Lit("</p><a href='"), Ph("articleUrl"), Lit("'>Read</a>"),
           Ph("author")>>)

TemplateSubject == Text(<<Lit("New post: "), Ph("title")>>)

TemplateSender ==
    Obj([name |-> Str("Benjamin"), email |-> Str("hello@thelearningmachine.dev")])

TemplateRecords ==
    {Obj([htmlContent |-> TemplateHtml, subject |-> TemplateSubject,
          sender |-> TemplateSender]),
     Obj([htmlContent |-> TemplateHtml, subject |-> TemplateSubject,
          sender |-> Obj([name |-> Str("Benjamin")])]),
     Obj([htmlContent |-> TemplateHtml, subject |-> TemplateSubject]),
     Obj([subject |-> TemplateSubject, sender |-> TemplateSender]),
     Obj([htmlContent |-> TemplateHtml, sender |-> TemplateSender]),
     Null}

TemplateReplies ==
    {NetworkError, HttpReply(404, JsonBody(Obj([code |-> Str("document_not_found")]))),
     HttpReply(200, NoBody)}
    \cup {HttpReply(200, JsonBody(r)) : r \in TemplateRecords}

DefaultSenderName == Str("The Learning Machine")

DefaultSenderEmail == Str("newsletter@thelearningmachine.dev")

\* An exception: what a throw carries to the catch clause of POST.
Thrown(message) == [threw |-> TRUE, message |-> Str(message), v |-> Undefined]

Returned(v) == [threw |-> FALSE, message |-> Str(""), v |-> v]

\* Sender as it would be if the record's sender were taken whole or not at
\* all.
SenderAllOrNothing(sender) ==
    IF sender.t = "obj"
    THEN [name |-> IF "name" \in DOMAIN sender.f THEN sender.f.name ELSE Undefined,
          email |-> IF "email" \in DOMAIN sender.f THEN sender.f.email ELSE Undefined]
    ELSE [name |-> DefaultSenderName, email |-> DefaultSenderEmail]

\* The sender of the rendered template (lines 143-146), given
\* templateData.sender.
Sender(sender) ==
    [name |-> OrElse(OptProp(sender, "name"), DefaultSenderName),
     email |-> OrElse(OptProp(sender, "email"), DefaultSenderEmail)]

\* getProcessedTemplate as it would be if it rendered something whatever the
\* outcome of its GET.
getProcessedTemplateNeverThrows(reply, params) ==
    Returned([htmlContent |-> Text(<<>>),
              subject |-> Text(<<>>),
              sender |-> [name |-> DefaultSenderName,
                          email |-> DefaultSenderEmail]])

\* getProcessedTemplate(brevoApiKey, templateId, params), given the reply to
\* its GET: the rendered template, or the error it throws.
getProcessedTemplate(reply, params) ==
    IF ~reply.arrived THEN Thrown("fetch failed")
    ELSE IF ~Ok(reply) THEN Thrown("Failed to fetch template")
    ELSE IF ~reply.body.ok THEN Thrown("Unexpected end of JSON input")
    ELSE LET templateData == reply.body.v
         IN  IF Throws(templateData)
             THEN Thrown("Cannot read properties of null")
             ELSE LET htmlContent == Prop(templateData, "htmlContent")
                      subject == Prop(templateData, "subject")
                      sender == Prop(templateData, "sender")
                  IN  IF ~IsText(htmlContent) \/ ~IsText(subject)
                      THEN Thrown("Cannot read properties of undefined")
                      ELSE Returned(
                            [htmlContent |-> Text(Substitute(htmlContent.p, params, 1)),
                             subject |-> Text(Substitute(subject.p, params, 1)),
                             sender |-> Sender(sender)])

CampaignReplies ==
    {NetworkError,
     HttpReply(503, NoBody),
     HttpReply(400, JsonBody(Obj([code |-> Str("invalid_parameter")]))),
     HttpReply(201, JsonBody(Obj([id |-> Num(41)]))),
     HttpReply(201, JsonBody(Obj([id |-> Num(42)]))),
     HttpReply(201, JsonBody(EmptyObj)),
     HttpReply(201, JsonBody(Null)),
     HttpReply(204, NoBody)}

(***************************************************************************)
(* The webhook handler POST, one activation at a time.                     *)
(***************************************************************************)
\* How many webhook deliveries a behaviour holds.
MaxDeliveries == 2

\* How long an outbound call can take, in milliseconds.
Latencies == {0, 1500}

\* 4 * 60 * 1000: the delay between now and the campaign's scheduled time.
ScheduleDelayMs == 4 * 60 * 1000

Bool(b) == [t |-> "bool", b |-> b]

VARIABLES
    env,        \* import.meta.env of the deployment
    now,        \* Date.now()
    deliveries, \* webhook deliveries received so far
    scheduled,  \* campaigns the provider has accepted, over all deliveries
    pc,         \* where the handler stands
    request,    \* the request being handled: rawBody, signature, receivedAt
    local,      \* the handler's local constants of this activation
    calls,      \* the outbound calls of this activation, in order
    replies,    \* the reply each outbound call of this activation got
    response,   \* the HTTP response of this activation
    inflight    \* the other activations in flight, each waiting at an await

vars == <<env, now, deliveries, scheduled, pc, request, local, calls, replies, response,
          inflight>>

NoRequest == [rawBody |-> <<>>, signature |-> Null, receivedAt |-> 0]

NoLocal ==
    [verified |-> "unchecked", parsed |-> FALSE, eventType |-> Undefined,
     postId |-> Undefined, post |-> Undefined, listId |-> Undefined,
     templateId |-> Undefined, templateParams |-> <<>>, template |-> Undefined,
     scheduledAt |-> Undefined, campaignData |-> Undefined]

NoReplies == [post |-> NoReply, template |-> NoReply, campaign |-> NoReply]

NoResponse == [status |-> 0, body |-> <<>>]

\* new Response(JSON.stringify(fields), {status})
Respond(status, fields) ==
    /\ response' = [status |-> status, body |-> JSONStringify(fields)]
    /\ pc' = "done"

\* Catch as it would be if the handler acknowledged the delivery whatever
\* went wrong.
CatchAcknowledge(message) == Respond(200, [error |-> message])

\* Catch as it would be without the try block: the error leaves the handler
\* and no response is built.
CatchRethrow(message) == pc' = "crashed" /\ UNCHANGED response

\* The catch clause of POST (lines 276-284): every error thrown in the try
\* block is an Error, and its message becomes the body's error.
Catch(message) == Respond(500, [error |-> message])

Init ==
    /\ env \in Environments
    /\ now = 0
    /\ deliveries = 0
    /\ scheduled = 0
    /\ pc = "idle"
    /\ request = NoRequest
    /\ local = NoLocal
    /\ calls = <<>>
    /\ replies = NoReplies
    /\ response = NoResponse
    /\ inflight = EmptyBag

\* The Response is handed back and the invocation ends: its request, locals
\* and replies are gone (every `return` of lines 151-285).
Return ==
    /\ pc = "done"
    /\ pc' = "idle"
    /\ request' = NoRequest
    /\ local' = NoLocal
    /\ calls' = <<>>
    /\ replies' = NoReplies
    /\ response' = NoResponse
    /\ UNCHANGED <<inflight, env, now, deliveries, scheduled>>

\* A delivery arrives (lines 151-158): request.text() and the signature header.
Receive(body, signature) ==
    /\ pc = "idle"
    /\ deliveries < MaxDeliveries
    /\ deliveries' = deliveries + 1
    /\ request' = [rawBody |-> body, signature |-> signature, receivedAt |-> now]
    /\ local' = NoLocal
    /\ calls' = <<>>
    /\ replies' = NoReplies
    /\ response' = NoResponse
    /\ pc' = "verify"
    /\ UNCHANGED <<inflight, env, now, scheduled>>

\* `hashnodeSecret && signature` (line 160): whether the signature is checked.
SignatureChecked(hashnodeSecret, signature) ==
    Truthy(hashnodeSecret) /\ Truthy(signature)

\* Lines 156-168.
Verify ==
    /\ pc = "verify"
    /\ LET hashnodeSecret == env.HASHNODE_WEBHOOK_SECRET
           signature == request.signature
       IN  IF SignatureChecked(hashnodeSecret, signature)
           THEN IF ~verifyHashnodeSignature(request.rawBody, signature.c,
                                            hashnodeSecret.c)
                THEN /\ local' = [local EXCEPT !.verified = "failed"]
                     /\ Respond(401, [error |-> Str("Unauthorized")])
                ELSE /\ local' = [local EXCEPT !.verified = "passed"]
                     /\ pc' = "parse"
                     /\ UNCHANGED response
           ELSE /\ local' = [local EXCEPT !.verified = "skipped"]
                /\ pc' = "parse"
                /\ UNCHANGED response
    /\ UNCHANGED <<inflight, env, now, deliveries, scheduled, request, calls, replies>>

\* Lines 170-175: JSON.parse, payload.data.eventType, payload.data.post.id.
Parse ==
    /\ pc = "parse"
    /\ LET parsed == JSONParse(request.rawBody)
           payload == parsed.v
           data == Prop(payload, "data")
           post == Prop(data, "post")
       IN  IF ~parsed.ok
           THEN /\ Catch(Str("Unexpected token in JSON"))
                /\ UNCHANGED local
           ELSE IF Throws(payload) \/ Throws(data) \/ Throws(post)
           THEN /\ Catch(Str("Cannot read properties of undefined"))
                /\ local' = [local EXCEPT !.parsed = TRUE]
           ELSE /\ local' = [local EXCEPT !.parsed = TRUE,
                                          !.eventType = Prop(data, "eventType"),
                                          !.postId = Prop(post, "id")]
                /\ pc' = "filter"
                /\ UNCHANGED response
    /\ UNCHANGED <<inflight, env, now, deliveries, scheduled, request, calls, replies>>

\* IsPublished as it would be if every named event kind were processed.
IsPublishedAnyEvent(eventType) == eventType.t = "str"

\* IsPublished as it would be if a module-level flag remembered that a
\* campaign was already scheduled and later events were dropped.
IsPublishedOnce(eventType) ==
    eventType = Str("post_published") /\ scheduled = 0

\* `eventType !== "post_published"` (line 178), negated.
IsPublished(eventType) == eventType = Str("post_published")

\* Lines 177-184.
Filter ==
    /\ pc = "filter"
    /\ IF ~IsPublished(local.eventType)
       THEN Respond(200, [message |-> Str("Event ignored"),
                          event |-> local.eventType])
       ELSE /\ pc' = "fetchPost"
            /\ UNCHANGED response
    /\ UNCHANGED <<inflight, env, now, deliveries, scheduled, request, local, calls, replies>>

\* FetchPostCall as it would be if the query were issued a second time.
FetchPostCallTwice ==
    /\ pc = "fetchPost"
    /\ calls' = calls \o <<"postQuery", "postQuery">>
    /\ pc' = "awaitPost"
    /\ UNCHANGED <<inflight, env, now, deliveries, scheduled, request, local, replies, response>>

\* fetchPostById issues its query (lines 187, 92-96).
FetchPostCall ==
    /\ pc = "fetchPost"
    /\ calls' = Append(calls, "postQuery")
    /\ pc' = "awaitPost"
    /\ UNCHANGED <<inflight, env, now, deliveries, scheduled, request, local, replies, response>>

\* PostUsable as it would be if the fetched post were not looked at.
PostUsableUnchecked(post) == TRUE

\* `!post || !post.title || !post.slug` (line 189), negated.
PostUsable(post) ==
    /\ Truthy(post)
    /\ Truthy(Prop(post, "title"))
    /\ Truthy(Prop(post, "slug"))

\* fetchPostById returns and the handler looks at the post (lines 98-109,
\* 189-197).
FetchPostReturn(reply, elapsed) ==
    /\ pc = "awaitPost"
    /\ now' = now + elapsed
    /\ replies' = [replies EXCEPT !.post = reply]
    /\ LET post == fetchPostById(reply)
       IN  /\ local' = [local EXCEPT !.post = post]
           /\ IF ~PostUsable(post)
              THEN Respond(400, [error |-> Str("Could not fetch post details")])
              ELSE /\ pc' = "configure"
                   /\ UNCHANGED response
    /\ UNCHANGED <<inflight, env, deliveries, scheduled, request, calls>>

\* The article's address (line 216).
ArticleUrl(slug) ==
    Text(<<Lit("https://thelearningmachine.dev/articles/")>>
            \o (IF IsText(slug) THEN slug.p ELSE <<Lit("undefined")>>))

\* templateParams (lines 217-222).
TemplateParams(post) ==
    [title |-> Prop(post, "title"),
     brief |-> OrElse(Prop(post, "brief"), Text(<<>>)),
     articleUrl |-> ArticleUrl(Prop(post, "slug")),
     coverImageUrl |-> OrElse(OptProp(Prop(post, "coverImage"), "url"), Text(<<>>))]

\* BrevoConfigured as it would be if only the API key were looked at.
BrevoConfiguredKeyOnly(e) == Truthy(e.BREVO_API_KEY)

\* BrevoConfigured as it would be if a module-level lock made the handler
\* give up while another activation is in flight.
BrevoConfiguredWhileAlone(e) ==
    /\ Truthy(e.BREVO_API_KEY)
    /\ Truthy(e.BREVO_LIST_ID)
    /\ Truthy(e.BREVO_CAMPAIGN_TEMPLATE_ID)
    /\ inflight = EmptyBag

\* `!brevoApiKey || !brevoListId || !brevoTemplateId` (line 204), negated.
BrevoConfigured(e) ==
    /\ Truthy(e.BREVO_API_KEY)
    /\ Truthy(e.BREVO_LIST_ID)
    /\ Truthy(e.BREVO_CAMPAIGN_TEMPLATE_ID)

\* Lines 199-222.  Reading post.slug of a null post throws (line 216); the
\* check of line 189 keeps a null post from getting here.
Configure ==
    /\ pc = "configure"
    /\ IF ~BrevoConfigured(env)
       THEN /\ Respond(500, [error |-> Str("Newsletter service not configured")])
            /\ UNCHANGED local
       ELSE IF Throws(local.post)
       THEN /\ Catch(Str("Cannot read properties of null"))
            /\ UNCHANGED local
       ELSE /\ local' = [local EXCEPT
                            !.listId = ParseIntEnv(env.BREVO_LIST_ID),
                            !.templateId = ParseIntEnv(env.BREVO_CAMPAIGN_TEMPLATE_ID),
                            !.templateParams = TemplateParams(local.post)]
            /\ pc' = "template"
            /\ UNCHANGED response
    /\ UNCHANGED <<inflight, env, now, deliveries, scheduled, request, calls, replies>>

\* getProcessedTemplate issues its GET (lines 226, 118-124).
TemplateCall ==
    /\ pc = "template"
    /\ calls' = Append(calls, "templateGet")
    /\ pc' = "awaitTemplate"
    /\ UNCHANGED <<inflight, env, now, deliveries, scheduled, request, local, replies, response>>

\* getProcessedTemplate returns or throws (lines 126-148, 226).
TemplateReturn(reply, elapsed) ==
    /\ pc = "awaitTemplate"
    /\ now' = now + elapsed
    /\ replies' = [replies EXCEPT !.template = reply]
    /\ LET result == getProcessedTemplate(reply, local.templateParams)
       IN  IF result.threw
           THEN /\ Catch(result.message)
                /\ UNCHANGED local
           ELSE /\ local' = [local EXCEPT !.template = result.v]
                /\ pc' = "campaign"
                /\ UNCHANGED response
    /\ UNCHANGED <<inflight, env, deliveries, scheduled, request, calls>>

\* campaignData (lines 232-241).
CampaignData(post, template, listId, scheduledAt, at) ==
    [name |-> [title |-> Prop(post, "title"), at |-> at],
     subject |-> template.subject,
     sender |-> template.sender,
     htmlContent |-> template.htmlContent,
     recipients |-> [listIds |-> <<listId>>],
     scheduledAt |-> scheduledAt]

\* CampaignCall as it would be if the delay were counted from the receipt of
\* the request.
CampaignCallFromReceipt ==
    /\ pc = "campaign"
    /\ LET scheduledAt == Num(request.receivedAt + ScheduleDelayMs)
       IN  local' = [local EXCEPT
                        !.scheduledAt = scheduledAt,
                        !.campaignData = CampaignData(local.post, local.template,
                                                      local.listId, scheduledAt, now)]
    /\ calls' = Append(calls, "campaignPost")
    /\ pc' = "awaitCampaign"
    /\ UNCHANGED <<inflight, env, now, deliveries, scheduled, request, replies, response>>

\* The campaign is built and POSTed to /emailCampaigns (lines 228-252).
CampaignCall ==
    /\ pc = "campaign"
    /\ LET scheduledAt == Num(now + ScheduleDelayMs)
       IN  local' = [local EXCEPT
                        !.scheduledAt = scheduledAt,
                        !.campaignData = CampaignData(local.post, local.template,
                                                      local.listId, scheduledAt, now)]
    /\ calls' = Append(calls, "campaignPost")
    /\ pc' = "awaitCampaign"
    /\ UNCHANGED <<inflight, env, now, deliveries, scheduled, request, replies, response>>

\* CampaignFailed as it would be if only server errors counted as failures.
CampaignFailedOnlyServerErrors(reply) == reply.status >= 500

\* `!campaignResponse.ok` (line 254).
CampaignFailed(reply) == ~Ok(reply)

\* CampaignId as it would be if the wrong property of the result were read.
CampaignIdWrongProperty(campaignResult) == Prop(campaignResult, "campaignId")

\* campaignResult.id (line 270).
CampaignId(campaignResult) == Prop(campaignResult, "id")

\* The provider answers the campaign creation (lines 254-275).  A 2xx answer
\* is the provider having scheduled the campaign.
CampaignReturn(reply, elapsed) ==
    /\ pc = "awaitCampaign"
    /\ now' = now + elapsed
    /\ replies' = [replies EXCEPT !.campaign = reply]
    /\ scheduled' = IF Ok(reply) THEN scheduled + 1 ELSE scheduled
    /\ IF ~reply.arrived
       THEN Catch(Str("fetch failed"))
       ELSE IF CampaignFailed(reply)
       THEN LET errorData == IF reply.body.ok THEN reply.body.v ELSE EmptyObj
            IN  Respond(500, [error |-> Str("Failed to create campaign"),
                              details |-> errorData])
       ELSE IF ~reply.body.ok
       THEN Catch(Str("Unexpected end of JSON input"))
       ELSE IF Throws(reply.body.v)
       THEN Catch(Str("Cannot read properties of null"))
       ELSE Respond(200, [success |-> Bool(TRUE),
                          message |-> Str("Newsletter scheduled"),
                          campaignId |-> CampaignId(reply.body.v),
                          scheduledAt |-> local.scheduledAt,
                          articleTitle |-> Prop(local.post, "title")])
    /\ UNCHANGED <<inflight, env, deliveries, request, local, calls>>

Next ==
    \/ \E body \in RequestBodies : \E signature \in SignatureHeaders(body) :
          Receive(body, signature)
    \/ Verify
    \/ Parse
    \/ Filter
    \/ FetchPostCall
    \/ \E reply \in PostQueryReplies, elapsed \in Latencies :
          FetchPostReturn(reply, elapsed)
    \/ Configure
    \/ TemplateCall
    \/ \E reply \in TemplateReplies, elapsed \in Latencies :
          TemplateReturn(reply, elapsed)
    \/ CampaignCall
    \/ \E reply \in CampaignReplies, elapsed \in Latencies :
          CampaignReturn(reply, elapsed)
    \/ Return

Spec == Init /\ [][Next]_vars

\* A step of the handler itself: everything but the arrival of a delivery.
HandlerStep ==
    /\ pc \notin {"idle", "done"}
    /\ \/ Verify
       \/ Parse
       \/ Filter
       \/ FetchPostCall
       \/ \E reply \in PostQueryReplies, elapsed \in Latencies :
             FetchPostReturn(reply, elapsed)
       \/ Configure
       \/ TemplateCall
       \/ \E reply \in TemplateReplies, elapsed \in Latencies :
             TemplateReturn(reply, elapsed)
       \/ CampaignCall
       \/ \E reply \in CampaignReplies, elapsed \in Latencies :
             CampaignReturn(reply, elapsed)

\* The event loop runs every continuation that is ready, and every outbound
\* call eventually returns or fails.
LiveSpec == Spec /\ WF_vars(HandlerStep)

(***************************************************************************)
(* Properties of the handler.                                              *)
(***************************************************************************)
Sent(call) == \E i \in 1..Len(calls) : calls[i] = call

SecretConfiguredIn(e) == Truthy(e.HASHNODE_WEBHOOK_SECRET)

SecretConfigured == Truthy(env.HASHNODE_WEBHOOK_SECRET)

\* The handler has gone past its verify step in this activation.
PastVerify == pc \notin {"idle", "verify"}

\* What lines 172-173 read from the request body, when they can be read.
BodyValue == JSONParse(request.rawBody)

BodyData == OptProp(BodyValue.v, "data")

BodyEventType == OptProp(BodyData, "eventType")

BodyPost == OptProp(BodyData, "post")

BodyPostId == OptProp(BodyPost, "id")

\* The body is JSON from which event type and post id can be read without
\* an error: an object with a data object that has a post object.
BodyReadable == BodyValue.ok /\ ~Throws(BodyData) /\ ~Throws(BodyPost)

\* The body is not JSON, or one of data, data.eventType, data.post,
\* data.post.id is missing from it.
BodyMalformed ==
    \/ ~BodyValue.ok
    \/ BodyData.t = "undefined"
    \/ BodyEventType.t = "undefined"
    \/ BodyPost.t = "undefined"
    \/ BodyPostId.t = "undefined"

HasField(name) == name \in DOMAIN response.body

\* C1: where a webhook secret is configured, a campaign creation request is
\* sent only if in that same request the signature was verified, the event
\* kind was published and the post was fetched.
C1_CampaignOnlyFromVerifiedEvent ==
    (SecretConfigured /\ Sent("campaignPost")) =>
        /\ local.verified = "passed"
        /\ IsPublished(local.eventType)
        /\ PostUsable(local.post)

\* C2: with a webhook secret configured, a request without the signature
\* header is answered 401 and makes no outbound call.
C2_MissingSignatureRejected ==
    (PastVerify /\ SecretConfigured /\ request.signature = Null) =>
        /\ pc = "done"
        /\ response.status = 401
        /\ calls = <<>>

\* C3: with a webhook secret configured, a request whose signature header
\* verify rejects is answered 401 {error: "Unauthorized"}; its payload is not
\* parsed and no outbound call is made.
C3_BadSignatureRejected ==
    (/\ PastVerify
     /\ SecretConfigured
     /\ request.signature.t = "chars"
     /\ ~verifyHashnodeSignature(request.rawBody, request.signature.c,
                                 env.HASHNODE_WEBHOOK_SECRET.c)) =>
        /\ pc = "done"
        /\ response.status = 401
        /\ HasField("error") /\ response.body.error = Str("Unauthorized")
        /\ ~local.parsed
        /\ calls = <<>>

\* C4: a request that passed the verify step and whose body is not JSON or
\* lacks data, data.eventType, data.post or data.post.id is answered 400 and
\* makes no outbound call.
C4_MalformedPayloadIs400 ==
    (local.verified = "passed" /\ BodyMalformed) =>
        /\ calls = <<>>
        /\ (pc = "done" => response.status = 400)

\* C5: a request that passed the verify step and whose event kind is
\* anything but post_published is answered 200 "Event ignored" and calls
\* neither the post fetcher nor the template processor nor the campaign
\* endpoint.
C5_OtherEventsIgnored ==
    (/\ local.verified \in {"passed", "skipped"}
     /\ BodyReadable
     /\ BodyEventType # Str("post_published")) =>
        /\ calls = <<>>
        /\ (pc = "done" =>
              /\ response.status = 200
              /\ HasField("message")
              /\ response.body.message = Str("Event ignored"))

C5_Witness ==
    /\ pc = "done"
    /\ local.verified = "passed"
    /\ BodyReadable
    /\ BodyEventType = Str("post_deleted")
    /\ response.status = 200

\* C6: when fetchPostById returns null for a published event, the handler
\* answers 400 and calls neither the template processor nor the campaign
\* endpoint.
C6_UnresolvedPostIs400 ==
    (Sent("postQuery") /\ pc # "awaitPost" /\ local.post = Null) =>
        /\ pc = "done"
        /\ response.status = 400
        /\ ~Sent("templateGet")
        /\ ~Sent("campaignPost")

C6_Witness ==
    /\ pc = "done"
    /\ IsPublished(local.eventType)
    /\ replies.post = HttpReply(200, JsonBody(Obj([data |-> Obj([post |-> Null])])))
    /\ local.post = Null
    /\ response.status = 400

\* C7: a campaign the provider accepted (2xx on campaign creation) implies
\* that the handler's response is 200: no failure response leaves a campaign
\* scheduled.
C7_AcceptedImplies200 ==
    (pc = "done" /\ Ok(replies.campaign)) => response.status = 200

\* C8: when the template fetch fails, the handler answers 500 and sends no
\* campaign creation request.
C8_TemplateFailureIs500 ==
    (replies.template # NoReply /\ ~Ok(replies.template)) =>
        /\ pc = "done"
        /\ response.status = 500
        /\ ~Sent("campaignPost")

C8_Witness ==
    /\ pc = "done"
    /\ replies.template.status = 404
    /\ Sent("templateGet")
    /\ response.status = 500

\* C9: when the campaign creation is answered with a non-2xx status, the
\* handler answers 500 with an error field and the upstream error detail, and
\* without a campaignId field.
C9_CampaignFailureIs500 ==
    (replies.campaign.arrived /\ ~Ok(replies.campaign)) =>
        /\ pc = "done"
        /\ response.status = 500
        /\ HasField("error")
        /\ HasField("details")
        /\ (replies.campaign.body.ok =>
                response.body.details = replies.campaign.body.v)
        /\ ~HasField("campaignId")

C9_Witness ==
    /\ pc = "done"
    /\ replies.campaign.status = 503
    /\ response.status = 500
    /\ scheduled = 0

\* The provider's reply to the campaign creation carries an identifier.
CampaignReplyHasId ==
    /\ replies.campaign.body.ok
    /\ replies.campaign.body.v.t = "obj"
    /\ "id" \in DOMAIN replies.campaign.body.v.f

\* C10: for a verified post_published event whose post fetch, template fetch
\* and campaign creation succeed, the handler answers 200 with success true
\* and the campaignId the provider returned.
C10_SuccessReturnsCampaignId ==
    (/\ pc = "done"
     /\ local.verified = "passed"
     /\ BodyEventType = Str("post_published")
     /\ Ok(replies.post)
     /\ Ok(replies.template)
     /\ Ok(replies.campaign)
     /\ CampaignReplyHasId) =>
        /\ response.status = 200
        /\ HasField("success") /\ response.body.success = Bool(TRUE)
        /\ HasField("campaignId")
        /\ response.body.campaignId = replies.campaign.body.v.f.id

C10_Witness ==
    /\ pc = "done"
    /\ local.verified = "passed"
    /\ Ok(replies.campaign)
    /\ CampaignReplyHasId
    /\ replies.campaign.body.v.f.id = Num(42)
    /\ response.status = 200

\* One of the four configuration values is absent.
ConfigValueAbsent ==
    \/ ~Truthy(env.HASHNODE_WEBHOOK_SECRET)
    \/ ~Truthy(env.BREVO_API_KEY)
    \/ ~Truthy(env.BREVO_LIST_ID)
    \/ ~Truthy(env.BREVO_CAMPAIGN_TEMPLATE_ID)

\* One of the three values of the campaign provider is absent.
BrevoValueAbsent ==
    \/ ~Truthy(env.BREVO_API_KEY)
    \/ ~Truthy(env.BREVO_LIST_ID)
    \/ ~Truthy(env.BREVO_CAMPAIGN_TEMPLATE_ID)

\* The post query of this activation returned a post with a title and a slug.
PostFetched ==
    /\ replies.post # NoReply
    /\ Truthy(local.post)
    /\ Truthy(Prop(local.post, "title"))
    /\ Truthy(Prop(local.post, "slug"))

\* C11 as stated: whenever one of the four configuration values is absent,
\* the request is answered 500.
C11_AbsentConfigIs500 ==
    (pc = "done" /\ ConfigValueAbsent) => response.status = 500

\* C11 as amended: when the API key, the list id or the template id is
\* absent, no request goes to the campaign provider, and a request that got
\* its post is answered 500 with an error; an absent webhook secret is no
\* error.
C11_AbsentBrevoConfigIs500 ==
    BrevoValueAbsent =>
        /\ ~Sent("templateGet")
        /\ ~Sent("campaignPost")
        /\ (pc = "done" /\ PostFetched) =>
              (response.status = 500 /\ HasField("error"))

C11_Witness ==
    /\ pc = "done"
    /\ local.verified = "passed"
    /\ Truthy(env.BREVO_API_KEY)
    /\ ~Truthy(env.BREVO_CAMPAIGN_TEMPLATE_ID)
    /\ PostFetched
    /\ response.status = 500

\* C12: every activation of the handler ends, with exactly one response: the
\* handler is done exactly when it has a response, a response once built is
\* not replaced within the activation, and every activation gets to done.
C12_ExactlyOneResponse ==
    /\ [](pc = "done" <=> response.status # 0)
    /\ [][response.status # 0 => (response' = response \/ pc' = "idle")]_vars
    /\ (pc \notin {"idle", "done"}) ~> (pc = "done")

C12_Witness ==
    /\ pc = "done"
    /\ deliveries = 2
    /\ response.status = 200
    /\ Sent("campaignPost")

\* The outbound calls in the order the handler issues them.
CallOrder == <<"postQuery", "templateGet", "campaignPost">>

\* C13: within one request the steps come in the fixed order verify, filter,
\* fetch post, fetch and render template, create campaign, respond.  The post
\* query is issued only after verification and the event filter; the
\* template GET only after the post query has returned a post with a title
\* and a slug; the campaign POST only after the template GET was answered
\* 2xx and the template rendered; and the response comes last.
C13_FixedOrder ==
    /\ \E n \in 0..Len(CallOrder) : calls = SubSeq(CallOrder, 1, n)
    /\ (local.verified = "unchecked") => (pc \in {"idle", "verify"})
    /\ Sent("postQuery") =>
          /\ local.verified \in {"passed", "skipped"}
          /\ local.parsed
          /\ local.eventType = Str("post_published")
    /\ Sent("templateGet") =>
          /\ replies.post.arrived
          /\ local.post.t = "obj"
          /\ Truthy(Prop(local.post, "title"))
          /\ Truthy(Prop(local.post, "slug"))
    /\ Sent("campaignPost") =>
          /\ replies.template.arrived
          /\ replies.template.status \in 200..299
          /\ local.template # Undefined
          /\ IsText(local.template.htmlContent)
          /\ IsText(local.template.subject)
    /\ (response.status # 0) => (pc = "done")

C13_Witness ==
    /\ pc = "awaitCampaign"
    /\ calls = CallOrder
    /\ replies.post.arrived
    /\ replies.template.arrived
    /\ replies.campaign = NoReply

\* How many times a call was issued in the current request.
Issued(call) == Cardinality({i \in 1..Len(calls) : calls[i] = call})

\* The reply to a call has come and it is a failure: no answer at all, or a
\* non-2xx status.
ReplyFailed(reply) ==
    /\ reply # NoReply
    /\ (~reply.arrived \/ reply.status \notin 200..299)

\* C14: within one request no outbound call is retried.  The post query, the
\* template GET and the campaign POST are each issued at most once, and once
\* the reply to any of them is a failure the request is over: nothing more
\* is issued.
C14_NoRetry ==
    /\ \A call \in {"postQuery", "templateGet", "campaignPost"} : Issued(call) <= 1
    /\ (ReplyFailed(replies.post) \/ ReplyFailed(replies.template)
            \/ ReplyFailed(replies.campaign)) => (pc = "done")
    /\ ReplyFailed(replies.post) => (calls = <<"postQuery">>)
    /\ ReplyFailed(replies.template) => (calls = <<"postQuery", "templateGet">>)

C14_Witness ==
    /\ pc = "done"
    /\ ReplyFailed(replies.campaign)
    /\ Issued("campaignPost") = 1
    /\ response.status = 500

(***************************************************************************)
(* verifyHashnodeSignature on its own: a secret, a body and a header value *)
(* are drawn, and the function is applied to them.                         *)
(***************************************************************************)
Secrets == {SharedSecret, OtherKey}

SigningTimestamps == {<<"0">>, <<"1", "7">>, <<"1", "7", "0", "0", "0", "1">>}

\* "v1=<digest>,t=<timestamp>": the segments the other way round.
ReorderedHeader(ts, body, key) ==
    <<"v", "1", "=">> \o HmacSha256Hex(key, ts \o <<".">> \o body)
        \o <<",", "t", "=">> \o ts

\* Header values with no t= segment or no v1= segment, or with one of them
\* empty.
HeadersLackingSegment(ts, body, key) ==
    LET digest == HmacSha256Hex(key, ts \o <<".">> \o body)
    IN  {<<>>,
         <<",">>,
         <<"t", "=">> \o ts,
         <<"t", "=">> \o ts \o <<",">>,
         <<"v", "1", "=">> \o digest,
         <<",", "v", "1", "=">> \o digest,
         <<"t", "=", ",", "v", "1", "=">> \o digest,
         <<"t", "=">> \o ts \o <<",", "v", "1", "=">>,
         <<"t", "=", ",", "v", "1", "=">>,
         <<"t", "=">> \o ts \o <<".", "v", "1", "=">> \o digest,
         <<"t", "=">> \o ts \o <<",", "v", "=">> \o digest,
         ts \o <<",", "v", "1", "=">> \o digest}

\* The signed header with one character of its v1 value replaced by another.
HeadersWithChangedDigest(ts, body, key) ==
    LET digest == HmacSha256Hex(key, ts \o <<".">> \o body)
        changes == {c \in (1..Len(digest)) \X Characters : c[2] # digest[c[1]]}
    IN  {<<"t", "=">> \o ts \o <<",", "v", "1", "=">>
            \o [digest EXCEPT ![c[1]] = c[2]] : c \in changes}

HeaderValues(ts, body, key) ==
    {SignedHeader(ts, body, key), ReorderedHeader(ts, body, key)}
        \cup HeadersLackingSegment(ts, body, key)
        \cup HeadersWithChangedDigest(ts, body, key)

VerifyInit ==
    /\ env \in {[HASHNODE_WEBHOOK_SECRET |-> Chars(secret),
                  BREVO_API_KEY |-> Undefined,
                  BREVO_LIST_ID |-> Undefined,
                  BREVO_CAMPAIGN_TEMPLATE_ID |-> Undefined] : secret \in Secrets}
    /\ now = 0
    /\ deliveries = 0
    /\ scheduled = 0
    /\ pc = "idle"
    /\ request = NoRequest
    /\ local = NoLocal
    /\ calls = <<>>
    /\ replies = NoReplies
    /\ response = NoResponse
    /\ inflight = EmptyBag

\* The arguments of one application: the payload and the header value.
VerifyArguments(payload, signatureHeader) ==
    /\ pc = "idle"
    /\ request' = [rawBody |-> payload, signature |-> Chars(signatureHeader),
                   receivedAt |-> now]
    /\ pc' = "verify"
    /\ UNCHANGED <<inflight, env, now, deliveries, scheduled, local, calls, replies, response>>

\* verifyHashnodeSignature(payload, signatureHeader, secret) is applied and
\* its result kept.
VerifyApplied ==
    /\ pc = "verify"
    /\ local' = [local EXCEPT !.verified =
                    IF verifyHashnodeSignature(request.rawBody, request.signature.c,
                                               env.HASHNODE_WEBHOOK_SECRET.c)
                    THEN "passed" ELSE "failed"]
    /\ pc' = "done"
    /\ UNCHANGED <<inflight, env, now, deliveries, scheduled, request, calls, replies, response>>

\* The function of the same name in pages/api/newsletter/notify.ts is
\* applied to the same arguments and its result kept.
NotifyVerifyApplied ==
    /\ pc = "verify"
    /\ local' = [local EXCEPT !.verified =
                    IF verifyHashnodeSignatureNotify(request.rawBody,
                                                     request.signature.c,
                                                     env.HASHNODE_WEBHOOK_SECRET.c)
                    THEN "passed" ELSE "failed"]
    /\ pc' = "doneNotify"
    /\ UNCHANGED <<inflight, env, now, deliveries, scheduled, request, calls, replies, response>>

VerifyNext ==
    \/ \E ts \in SigningTimestamps, payload \in RequestBodies :
          \E signatureHeader \in HeaderValues(ts, payload, env.HASHNODE_WEBHOOK_SECRET.c) :
             VerifyArguments(payload, signatureHeader)
    \/ VerifyApplied
    \/ NotifyVerifyApplied

VerifySpec == VerifyInit /\ [][VerifyNext]_vars

\* The secret the function was applied with.
AppliedSecret == env.HASHNODE_WEBHOOK_SECRET.c

\* The function of content.config.ts has been applied to the arguments of
\* the state.
Applied == pc = "done" /\ local.verified \in {"passed", "failed"}

\* The function of notify.ts has been applied to the arguments of the state.
NotifyApplied == pc = "doneNotify" /\ local.verified \in {"passed", "failed"}

\* C15: for every secret, timestamp and body, the header
\* "t=<timestamp>,v1=<hex HMAC of '<timestamp>.<body>' keyed by the secret>"
\* verifies: the function returns true, in content.config.ts and in
\* pages/api/newsletter/notify.ts alike.
C15_SignedHeaderVerifies ==
    (/\ (Applied \/ NotifyApplied)
     /\ \E ts \in SigningTimestamps :
           request.signature.c = SignedHeader(ts, request.rawBody, AppliedSecret))
        => (local.verified = "passed")

\* The same for the function of content.config.ts alone.
C15_SignedHeaderVerifiesInContentConfig ==
    (/\ Applied
     /\ \E ts \in SigningTimestamps :
           request.signature.c = SignedHeader(ts, request.rawBody, AppliedSecret))
        => (local.verified = "passed")

\* C16: for every header value that has no t= segment or no v1= segment, or
\* has one of them empty, the function returns false (it returns: the
\* missing segment is read with optional chaining, nothing is thrown).
C16_LackingSegmentIsFalse ==
    (/\ Applied
     /\ \E ts \in SigningTimestamps :
           request.signature.c
              \in HeadersLackingSegment(ts, request.rawBody, AppliedSecret))
        => (local.verified = "failed")

C16_Witness ==
    /\ Applied
    /\ request.signature.c = <<"t", "=", "1", "7", ",", "v", "1", "=">>
    /\ local.verified = "failed"

\* C17: changing any single character of the v1 value of a header that
\* verifies makes the function return false, and the function returns true
\* only when the v1 value is exactly the expected digest for the timestamp,
\* the body and the secret.
C17_ChangedDigestIsFalse ==
    /\ (/\ Applied
        /\ \E ts \in SigningTimestamps :
              request.signature.c
                 \in HeadersWithChangedDigest(ts, request.rawBody, AppliedSecret))
           => (local.verified = "failed")
    /\ (Applied /\ local.verified = "passed") =>
           \E ts \in SigningTimestamps :
              request.signature.c
                 \in {SignedHeader(ts, request.rawBody, AppliedSecret),
                      ReorderedHeader(ts, request.rawBody, AppliedSecret)}

C17_Witness ==
    /\ Applied
    /\ \E ts \in SigningTimestamps :
          /\ request.signature.c
                \in HeadersWithChangedDigest(ts, request.rawBody, AppliedSecret)
          /\ request.signature.c[Len(request.signature.c)]
                = SignedHeader(ts, request.rawBody, AppliedSecret)[Len(request.signature.c)]
    /\ local.verified = "failed"

(***************************************************************************)
(* getProcessedTemplate on its own: the handler stands at the template     *)
(* GET with the params of a drawn post, and a drawn template comes back.   *)
(***************************************************************************)
\* A post whose title holds the characters "$$".
DollarPost ==
    Obj([id |-> Str("p1"),
         title |-> Text(<<Lit("Earn "), Pattern("$$"), Lit(" with TLA")>>),
         slug |-> PostSlug, brief |-> PostBrief, coverImage |-> Null])

\* A post whose brief holds the characters "$&".
AmpersandPost ==
    Obj([id |-> Str("p1"), title |-> PostTitle, slug |-> PostSlug,
         brief |-> Text(<<Lit("What "), Pattern("$&"), Lit(" means in sed")>>),
         coverImage |-> Null])

\* A post whose title holds the placeholder text of the brief, a key the
\* loop reaches after title.
BriefInTitlePost ==
    Obj([id |-> Str("p1"),
         title |-> Text(<<Lit("Writing "), Ph("brief"), Lit(" in a template")>>),
         slug |-> PostSlug, brief |-> PostBrief, coverImage |-> Null])

\* A post whose brief holds the placeholder text of the title, a key the
\* loop has passed when it reaches brief.
TitleInBriefPost ==
    Obj([id |-> Str("p1"), title |-> PostTitle, slug |-> PostSlug,
         brief |-> Text(<<Lit("How "), Ph("title"), Lit(" is filled in")>>),
         coverImage |-> Null])

RenderPosts ==
    {FullPost, BarePost, DollarPost, AmpersandPost, BriefInTitlePost,
     TitleInBriefPost}

\* Template texts: the usual ones, placeholders with no or several spaces,
\* repeated placeholders, a placeholder of a key that is not a param, and
\* text without placeholders.
RenderTexts ==
    {TemplateHtml,
     TemplateSubject,
     Text(<<Lit("Hello "), PhSpaced("title", 0, 0)>>),
     Text(<<PhSpaced("title", 3, 0), Lit(" - "), Ph("title"), Lit(": "),
            PhSpaced("brief", 0, 2)>>),
     Text(<<Lit("By "), Ph("author"), Lit(" at "), Ph("coverImageUrl")>>),
     Text(<<Lit("Our weekly letter")>>),
     Text(<<>>)}

\* The sender of a template record: complete, with one field only, with an
\* empty field, empty, or null.
RenderSenders ==
    {TemplateSender,
     Obj([name |-> Str("Benjamin")]),
     Obj([email |-> Str("hello@thelearningmachine.dev")]),
     Obj([name |-> Str(""), email |-> Str("hello@thelearningmachine.dev")]),
     EmptyObj,
     Null}

RenderReplies ==
    {HttpReply(200, JsonBody(Obj([htmlContent |-> html, subject |-> subject,
                                  sender |-> TemplateSender]))) :
        html \in RenderTexts, subject \in RenderTexts}
    \cup {HttpReply(200, JsonBody(Obj([htmlContent |-> TemplateHtml,
                                       subject |-> TemplateSubject,
                                       sender |-> sender]))) :
            sender \in RenderSenders}
    \cup {HttpReply(200, JsonBody(Obj([htmlContent |-> TemplateHtml,
                                       subject |-> TemplateSubject])))}

RenderInit ==
    /\ env \in {e \in Environments : BrevoConfigured(e)}
    /\ now = 0
    /\ deliveries = 1
    /\ scheduled = 0
    /\ pc = "awaitTemplate"
    /\ request = [rawBody |-> TxtPublished, signature |-> Null, receivedAt |-> 0]
    /\ \E post \in RenderPosts :
          local = [NoLocal EXCEPT
                      !.verified = "skipped",
                      !.parsed = TRUE,
                      !.eventType = Str("post_published"),
                      !.postId = Str("p1"),
                      !.post = post,
                      !.listId = ParseIntEnv(env.BREVO_LIST_ID),
                      !.templateId = ParseIntEnv(env.BREVO_CAMPAIGN_TEMPLATE_ID),
                      !.templateParams = TemplateParams(post)]
    /\ calls = <<"postQuery", "templateGet">>
    /\ replies = NoReplies
    /\ response = NoResponse
    /\ inflight = EmptyBag

RenderNext ==
    \/ \E reply \in RenderReplies, elapsed \in Latencies :
          TemplateReturn(reply, elapsed)
    \/ CampaignCall

RenderSpec == RenderInit /\ [][RenderNext]_vars

\* A text with every placeholder whose key is in params replaced by exactly
\* the value of that key, and everything else as it was.
RECURSIVE ExactRender(_, _)
ExactRender(pieces, params) ==
    IF pieces = <<>> THEN <<>>
    ELSE (IF Head(pieces).k = "ph" /\ Head(pieces).s \in DOMAIN params
          THEN params[Head(pieces).s].p
          ELSE <<Head(pieces)>>)
            \o ExactRender(Tail(pieces), params)

\* The template record the provider answered with.
TemplateRecord == replies.template.body.v

\* C18: rendering replaces every placeholder {{ params.<key> }}, whatever the
\* whitespace around params.<key>, in the HTML body and in the subject, by
\* exactly the string value of that key in params; placeholders of other
\* keys stay verbatim and params without a placeholder change nothing.
C18_SubstitutionExact ==
    (pc = "campaign" /\ Ok(replies.template)) =>
        /\ local.template.htmlContent
              = Text(ExactRender(Prop(TemplateRecord, "htmlContent").p,
                                 local.templateParams))
        /\ local.template.subject
              = Text(ExactRender(Prop(TemplateRecord, "subject").p,
                                 local.templateParams))

\* C19: the template step propagates an error only when the template GET is
\* answered non-2xx: for every 2xx answer, whatever its body, a rendered
\* template with an HTML body and a subject is returned.
C19_Every2xxRenders ==
    Ok(replies.template) =>
        /\ local.template # Undefined
        /\ IsText(local.template.htmlContent)
        /\ IsText(local.template.subject)

\* The request succeeded: the campaign was created and 200 answered.
Succeeded ==
    /\ pc = "done"
    /\ Sent("campaignPost")
    /\ response.status = 200

\* C20 as stated: on a successful request the scheduledAt submitted to the
\* provider and returned in the 200 response is exactly 4 minutes after the
\* time the request was received, however long the two fetches took.
C20_FourMinutesAfterReceipt ==
    Succeeded =>
        /\ local.campaignData.scheduledAt = Num(request.receivedAt + 240000)
        /\ response.body.scheduledAt = Num(request.receivedAt + 240000)

\* C20, amended: the scheduledAt submitted to the provider and the one in the
\* 200 response are the same instant, exactly 4 minutes after the moment
\* the campaign request is built, which is after the post fetch and the
\* template fetch have returned; it is never less than 4 minutes after the
\* receipt of the request.
C20_FourMinutesAfterBuild ==
    /\ [][(pc = "campaign" /\ pc' = "awaitCampaign") =>
            /\ local'.scheduledAt = Num(now + 240000)
            /\ local'.campaignData.scheduledAt = Num(now + 240000)
            /\ replies.post.arrived /\ replies.template.arrived]_vars
    /\ [](Sent("campaignPost") =>
            /\ local.campaignData.scheduledAt = local.scheduledAt
            /\ local.scheduledAt.n >= request.receivedAt + 240000)
    /\ [](Succeeded => response.body.scheduledAt = local.campaignData.scheduledAt)

C20_Witness ==
    /\ Succeeded
    /\ request.receivedAt > 0
    /\ response.body.scheduledAt = Num(request.receivedAt + 3000 + 240000)

\* The reply to the post query carries a GraphQL errors array.
ReplyCarriesErrors(reply) ==
    /\ reply.arrived
    /\ reply.body.ok
    /\ reply.body.v.t = "obj"
    /\ "errors" \in DOMAIN reply.body.v.f
    /\ reply.body.v.f.errors.t = "arr"

\* C21: fetchPostById never throws.  A transport error, a reply that cannot
\* be parsed and a reply carrying a GraphQL errors array (even next to data)
\* all give null, which the handler answers with its own 400 and not through
\* its catch clause; and one call issues exactly one query.
C21_FetchPostNeverThrows ==
    (replies.post # NoReply) =>
        /\ (\/ ~replies.post.arrived
            \/ ~replies.post.body.ok
            \/ ReplyCarriesErrors(replies.post)) => (local.post = Null)
        /\ (local.post = Null) =>
              /\ pc = "done"
              /\ response.status = 400
              /\ response.body.error = Str("Could not fetch post details")
        /\ Issued("postQuery") = 1

C21_Witness ==
    /\ pc = "done"
    /\ ReplyCarriesErrors(replies.post)
    /\ "data" \in DOMAIN replies.post.body.v.f
    /\ replies.post.body.v.f.errors = Arr(<<>>)
    /\ local.post = Null
    /\ response.status = 400

(***************************************************************************)
(* Several activations in flight.  The runtime runs one continuation at a  *)
(* time; at an await the running activation is set aside and the event     *)
(* loop takes up another one, or a new delivery.                           *)
(***************************************************************************)
\* The positions at which the handler is waiting at an await: request.text()
\* (line 154) and the three outbound calls.
AwaitPositions == {"verify", "awaitPost", "awaitTemplate", "awaitCampaign"}

\* Everything that belongs to the running activation.
Context ==
    [pc |-> pc, request |-> request, local |-> local, calls |-> calls,
     replies |-> replies, response |-> response]

\* The running activation waits at an await and is set aside.
Yield ==
    /\ pc \in AwaitPositions
    /\ inflight' = inflight (+) SetToBag({Context})
    /\ pc' = "idle"
    /\ request' = NoRequest
    /\ local' = NoLocal
    /\ calls' = <<>>
    /\ replies' = NoReplies
    /\ response' = NoResponse
    /\ UNCHANGED <<env, now, deliveries, scheduled>>

\* The event loop takes up an activation that was set aside.
Resume(context) ==
    /\ pc = "idle"
    /\ BagIn(context, inflight)
    /\ inflight' = inflight (-) SetToBag({context})
    /\ pc' = context.pc
    /\ request' = context.request
    /\ local' = context.local
    /\ calls' = context.calls
    /\ replies' = context.replies
    /\ response' = context.response
    /\ UNCHANGED <<env, now, deliveries, scheduled>>

\* The deployments, deliveries and replies of the interleaved runs.
ConcurrentEnvironments ==
    {e \in Environments : Truthy(e.BREVO_LIST_ID) /\ Truthy(e.BREVO_CAMPAIGN_TEMPLATE_ID)}

ConcurrentBodies == {TxtNotJson, TxtUpdated, TxtPublished}

ConcurrentSignatures(body) ==
    {Null} \cup {Chars(SignedHeader(ts, body, SharedSecret)) : ts \in Timestamps}

ConcurrentPostReplies ==
    {NetworkError, HttpReply(200, JsonBody(Obj([data |-> Obj([post |-> FullPost])])))}

ConcurrentTemplateReplies ==
    {HttpReply(404, JsonBody(Obj([code |-> Str("document_not_found")]))),
     HttpReply(200, JsonBody(Obj([htmlContent |-> TemplateHtml,
                                  subject |-> TemplateSubject,
                                  sender |-> TemplateSender])))}

ConcurrentCampaignReplies ==
    {HttpReply(400, JsonBody(Obj([code |-> Str("invalid_parameter")]))),
     HttpReply(201, JsonBody(Obj([id |-> Num(41)])))}

ConcurrentInit ==
    /\ env \in ConcurrentEnvironments
    /\ now = 0
    /\ deliveries = 0
    /\ scheduled = 0
    /\ pc = "idle"
    /\ request = NoRequest
    /\ local = NoLocal
    /\ calls = <<>>
    /\ replies = NoReplies
    /\ response = NoResponse
    /\ inflight = EmptyBag

ConcurrentNext ==
    \/ \E body \in ConcurrentBodies : \E signature \in ConcurrentSignatures(body) :
          Receive(body, signature)
    \/ Verify
    \/ Parse
    \/ Filter
    \/ FetchPostCall
    \/ \E reply \in ConcurrentPostReplies, elapsed \in Latencies :
          FetchPostReturn(reply, elapsed)
    \/ Configure
    \/ TemplateCall
    \/ \E reply \in ConcurrentTemplateReplies, elapsed \in Latencies :
          TemplateReturn(reply, elapsed)
    \/ CampaignCall
    \/ \E reply \in ConcurrentCampaignReplies, elapsed \in Latencies :
          CampaignReturn(reply, elapsed)
    \/ Return
    \/ Yield
    \/ \E context \in BagToSet(inflight) : Resume(context)

ConcurrentSpec == ConcurrentInit /\ [][ConcurrentNext]_vars

\* What the handler answers, and the calls it makes, when it runs alone in
\* deployment e on request req, its calls being answered by reps and its
\* campaign request being built at time builtAt.
AloneOutcome(e, req, reps, builtAt) ==
    LET checked == SignatureChecked(e.HASHNODE_WEBHOOK_SECRET, req.signature)
        parsed == JSONParse(req.rawBody)
        data == Prop(parsed.v, "data")
        eventType == Prop(data, "eventType")
        post == fetchPostById(reps.post)
        template == getProcessedTemplate(reps.template, TemplateParams(post))
        answer(status, fields, made) ==
            [response |-> [status |-> status, body |-> JSONStringify(fields)],
             calls |-> made]
    IN  IF checked /\ ~verifyHashnodeSignature(req.rawBody, req.signature.c,
                                               e.HASHNODE_WEBHOOK_SECRET.c)
        THEN answer(401, [error |-> Str("Unauthorized")], <<>>)
        ELSE IF ~parsed.ok
        THEN answer(500, [error |-> Str("Unexpected token in JSON")], <<>>)
        ELSE IF Throws(parsed.v) \/ Throws(data) \/ Throws(Prop(data, "post"))
        THEN answer(500, [error |-> Str("Cannot read properties of undefined")], <<>>)
        ELSE IF eventType # Str("post_published")
        THEN answer(200, [message |-> Str("Event ignored"), event |-> eventType], <<>>)
        ELSE IF ~PostUsable(post)
        THEN answer(400, [error |-> Str("Could not fetch post details")],
                    <<"postQuery">>)
        ELSE IF ~BrevoConfigured(e)
        THEN answer(500, [error |-> Str("Newsletter service not configured")],
                    <<"postQuery">>)
        ELSE IF template.threw
        THEN answer(500, [error |-> template.message], <<"postQuery", "templateGet">>)
        ELSE IF ~reps.campaign.arrived
        THEN answer(500, [error |-> Str("fetch failed")], CallOrder)
        ELSE IF ~Ok(reps.campaign)
        THEN answer(500, [error |-> Str("Failed to create campaign"),
                          details |-> IF reps.campaign.body.ok
                                      THEN reps.campaign.body.v ELSE EmptyObj],
                    CallOrder)
        ELSE IF ~reps.campaign.body.ok
        THEN answer(500, [error |-> Str("Unexpected end of JSON input")], CallOrder)
        ELSE IF Throws(reps.campaign.body.v)
        THEN answer(500, [error |-> Str("Cannot read properties of null")], CallOrder)
        ELSE answer(200, [success |-> Bool(TRUE),
                          message |-> Str("Newsletter scheduled"),
                          campaignId |-> Prop(reps.campaign.body.v, "id"),
                          scheduledAt |-> Num(builtAt + ScheduleDelayMs),
                          articleTitle |-> Prop(post, "title")],
                    CallOrder)

\* The moment the campaign request of an activation was built, if it was.
BuiltAt(context) ==
    IF context.local.campaignData = Undefined THEN 0
    ELSE context.local.campaignData.name.at

\* The activations there are: the running one and those set aside.
Activations == {Context} \cup BagToSet(inflight)

\* C22: activations in flight together are independent.  Whatever the
\* interleaving, an activation that has answered gave the response, and made
\* the outbound calls, that it gives when it runs alone on the same request
\* with the same replies; an activation set aside is not changed by the
\* others running.
C22_ActivationsIndependent ==
    /\ [](\A a \in Activations :
            (a.pc = "done") =>
                LET alone == AloneOutcome(env, a.request, a.replies, BuiltAt(a))
                IN  /\ a.response = alone.response
                    /\ a.calls = alone.calls)
    /\ [][\A a \in BagToSet(inflight) :
            CopiesIn(a, inflight') >= CopiesIn(a, inflight)
                \/ (pc = "idle" /\ Context' = a)]_vars

C22_Witness ==
    /\ pc = "done"
    /\ response.status = 200
    /\ Sent("campaignPost")
    /\ \E a \in BagToSet(inflight) :
          /\ a.pc = "awaitCampaign"
          /\ a.request.receivedAt < request.receivedAt

(***************************************************************************)
(* The same verified post_published event delivered again and again, one   *)
(* delivery after another or several in flight together, every step        *)
(* succeeding each time.                                                   *)
(***************************************************************************)
RepeatedInit ==
    /\ env \in {e \in Environments : SecretConfiguredIn(e) /\ BrevoConfigured(e)}
    /\ now = 0
    /\ deliveries = 0
    /\ scheduled = 0
    /\ pc = "idle"
    /\ request = NoRequest
    /\ local = NoLocal
    /\ calls = <<>>
    /\ replies = NoReplies
    /\ response = NoResponse
    /\ inflight = EmptyBag

RepeatedNext ==
    \/ \E ts \in Timestamps :
          Receive(TxtPublished, Chars(SignedHeader(ts, TxtPublished, SharedSecret)))
    \/ Verify
    \/ Parse
    \/ Filter
    \/ FetchPostCall
    \/ \E elapsed \in Latencies :
          FetchPostReturn(HttpReply(200, JsonBody(Obj([data |-> Obj([post |-> FullPost])]))),
                          elapsed)
    \/ Configure
    \/ TemplateCall
    \/ \E elapsed \in Latencies :
          TemplateReturn(HttpReply(200, JsonBody(Obj([htmlContent |-> TemplateHtml,
                                                      subject |-> TemplateSubject,
                                                      sender |-> TemplateSender]))),
                         elapsed)
    \/ CampaignCall
    \/ \E reply \in {HttpReply(201, JsonBody(Obj([id |-> Num(41)]))),
                      HttpReply(201, JsonBody(Obj([id |-> Num(42)])))},
          elapsed \in Latencies :
          CampaignReturn(reply, elapsed)
    \/ Return
    \/ Yield
    \/ \E context \in BagToSet(inflight) : Resume(context)

RepeatedSpec == RepeatedInit /\ [][RepeatedNext]_vars

\* The activations, counted as many times as they are in flight, whose
\* campaign request the provider has not answered yet.
Unanswered ==
    BagCardinality(inflight)
        + (IF pc \notin {"idle", "done"} THEN 1 ELSE 0)

\* C23: nothing is deduplicated across deliveries.  When the same verified
\* post_published event is delivered k times, one after another or together,
\* and every step succeeds each time, k campaign creation requests are
\* submitted, one per delivery: every delivery that has been answered was
\* answered 200 after one campaign request of its own, and once all k are
\* answered the provider holds k campaigns.
C23_NoDeduplication ==
    /\ [](scheduled + Unanswered = deliveries)
    /\ []((pc = "done") =>
            /\ response.status = 200
            /\ Issued("campaignPost") = 1)
    /\ [][(pc = "campaign" /\ pc' = "awaitCampaign") =>
            calls' = Append(calls, "campaignPost")]_vars
    /\ [][scheduled' # scheduled =>
            /\ scheduled' = scheduled + 1
            /\ pc = "awaitCampaign" /\ pc' = "done"]_vars

C23_Witness ==
    /\ pc = "done"
    /\ inflight = EmptyBag
    /\ deliveries = 2
    /\ scheduled = 2
    /\ request.receivedAt = 0

\* The record's sender has the field, and it is not empty.
SenderHas(field) ==
    /\ TemplateRecord.t = "obj"
    /\ "sender" \in DOMAIN TemplateRecord.f
    /\ TemplateRecord.f.sender.t = "obj"
    /\ field \in DOMAIN TemplateRecord.f.sender.f
    /\ TemplateRecord.f.sender.f[field] \notin {Undefined, Null, Str("")}

\* C24: the rendered template's sender takes the name and the email of the
\* provider's record where the record has them, and falls back, field by
\* field, to 'The Learning Machine' and 'newsletter@thelearningmachine.dev'
\* where the record has no such field or no sender at all; the sender of the
\* campaign request is the rendered one and is always complete.
C24_SenderFallsBackPerField ==
    (pc \in {"campaign", "awaitCampaign"}) =>
        /\ local.template.sender.name
              = (IF SenderHas("name") THEN TemplateRecord.f.sender.f.name
                 ELSE Str("The Learning Machine"))
        /\ local.template.sender.email
              = (IF SenderHas("email") THEN TemplateRecord.f.sender.f.email
                 ELSE Str("newsletter@thelearningmachine.dev"))
        /\ (pc = "awaitCampaign") =>
              /\ local.campaignData.sender = local.template.sender
              /\ local.campaignData.sender.name.t = "str"
              /\ local.campaignData.sender.name.v # ""
              /\ local.campaignData.sender.email.t = "str"
              /\ local.campaignData.sender.email.v # ""

C24_Witness ==
    /\ pc = "awaitCampaign"
    /\ SenderHas("email")
    /\ ~SenderHas("name")
    /\ local.campaignData.sender
          = [name |-> Str("The Learning Machine"),
             email |-> Str("hello@thelearningmachine.dev")]

(***************************************************************************)
(* getAdjacentPosts(currentSlug) of lib/hashnode/api.ts, on its own.  The  *)
(* call is the request (currentSlug, and allPosts once getAllPosts has     *)
(* returned) and its result the response.                                  *)
(***************************************************************************)
\* How many posts the list of getAllPosts holds at most.
MaxPosts == 3

Slugs == {"intro", "tla", "astro", "brevo"}

\* A slug no post of the publication has.
UnknownSlug == "draft"

ListedPost(slug) == Obj([slug |-> Str(slug), title |-> Str(slug)])

\* What getAllPosts(50) returns: the posts newest first, each slug once; the
\* empty list when the publication has no post or the fetch failed.
PostLists ==
    UNION {{[i \in 1..n |-> ListedPost(order[i])] :
                order \in {o \in [1..n -> Slugs] :
                              \A i, j \in 1..n : o[i] = o[j] => i = j}} :
            n \in 0..MaxPosts}

\* allPosts[i], counted from 0.
At(allPosts, i) == allPosts[i + 1]

\* allPosts.findIndex((post) => post.slug === currentSlug): the first such
\* index counted from 0, or -1.
FindIndex(allPosts, currentSlug) ==
    LET hits == {i \in 0..(Len(allPosts) - 1) :
                    Prop(At(allPosts, i), "slug") = Str(currentSlug)}
    IN  IF hits = {} THEN -1
        ELSE CHOOSE i \in hits : \A j \in hits : i <= j

\* getAdjacentPosts as it would be with newer and older the wrong way round.
getAdjacentPostsSwapped(allPosts, currentSlug) ==
    LET currentIndex == FindIndex(allPosts, currentSlug)
    IN  IF currentIndex = -1 THEN [older |-> Null, newer |-> Null]
        ELSE [older |-> IF currentIndex > 0
                        THEN At(allPosts, currentIndex - 1) ELSE Null,
              newer |-> IF currentIndex < Len(allPosts) - 1
                        THEN At(allPosts, currentIndex + 1) ELSE Null]

\* getAdjacentPosts(currentSlug), given the list getAllPosts(50) returned
\* (lines 519-532).
getAdjacentPosts(allPosts, currentSlug) ==
    LET currentIndex == FindIndex(allPosts, currentSlug)
    IN  IF currentIndex = -1 THEN [older |-> Null, newer |-> Null]
        ELSE [newer |-> IF currentIndex > 0
                        THEN At(allPosts, currentIndex - 1) ELSE Null,
              older |-> IF currentIndex < Len(allPosts) - 1
                        THEN At(allPosts, currentIndex + 1) ELSE Null]

AdjacentInit ==
    /\ env \in {e \in Environments : SecretConfiguredIn(e) /\ BrevoConfigured(e)}
    /\ now = 0
    /\ deliveries = 0
    /\ scheduled = 0
    /\ pc = "idle"
    /\ \E currentSlug \in Slugs \cup {UnknownSlug} :
          request = [currentSlug |-> currentSlug, allPosts |-> <<>>]
    /\ local = NoLocal
    /\ calls = <<>>
    /\ replies = NoReplies
    /\ response = NoResponse
    /\ inflight = EmptyBag

\* `await getAllPosts(50)` returns (line 519).
AllPostsReturn(allPosts) ==
    /\ pc = "idle"
    /\ request' = [request EXCEPT !.allPosts = allPosts]
    /\ pc' = "listed"
    /\ UNCHANGED <<inflight, env, now, deliveries, scheduled, local, calls, replies, response>>

\* Lines 520-532.
AdjacentReturn ==
    /\ pc = "listed"
    /\ response' = getAdjacentPosts(request.allPosts, request.currentSlug)
    /\ pc' = "done"
    /\ UNCHANGED <<inflight, env, now, deliveries, scheduled, request, local, calls, replies>>

AdjacentNext ==
    \/ \E allPosts \in PostLists : AllPostsReturn(allPosts)
    \/ AdjacentReturn

AdjacentSpec == AdjacentInit /\ [][AdjacentNext]_vars

\* The places of the list, counted from 1, at which the slug asked for is.
PlacesOfCurrent ==
    {i \in 1..Len(request.allPosts) :
        request.allPosts[i].f.slug = Str(request.currentSlug)}

\* C25: over the newest-first list of length n, when the slug is at index i,
\* newer is the post just before it (null for the first of the list) and
\* older the post just after it (null for the last); when the slug is not in
\* the list, or the list is empty, both are null; and neither is ever the
\* current post.
C25_AdjacentPosts ==
    (pc = "done") =>
        IF PlacesOfCurrent = {}
        THEN response = [older |-> Null, newer |-> Null]
        ELSE \A i \in PlacesOfCurrent :
                /\ response.newer
                      = (IF i = 1 THEN Null ELSE request.allPosts[i - 1])
                /\ response.older
                      = (IF i = Len(request.allPosts) THEN Null
                         ELSE request.allPosts[i + 1])
                /\ response.newer # request.allPosts[i]
                /\ response.older # request.allPosts[i]

C25_Witness ==
    /\ pc = "done"
    /\ Len(request.allPosts) = 3
    /\ request.currentSlug = "tla"
    /\ request.allPosts[2] = ListedPost("tla")
    /\ response.newer = request.allPosts[1]
    /\ response.older = request.allPosts[3]

(***************************************************************************)
(* The subscribe endpoint (pages/api/newsletter/subscribe), a handler of   *)
(* its own: validation, configuration, contact lookup, double opt-in.      *)
(***************************************************************************)
\* \s of a regular expression.
IsWhitespace(ch) == ch \in {" ", "\t", "\n"}

\* [^\s@]+ over the characters lo..hi of s.
NoSpaceNoAt(s, lo, hi) ==
    /\ lo <= hi
    /\ \A i \in lo..hi : ~IsWhitespace(s[i]) /\ s[i] # "@"

\* /^[^\s@]+@[^\s@]+\.[^\s@]+$/.test(email) (lines 15-16).
emailRegex(s) ==
    \E i \in 1..Len(s), j \in 1..Len(s) :
        /\ s[i] = "@"
        /\ s[j] = "."
        /\ NoSpaceNoAt(s, 1, i - 1)
        /\ NoSpaceNoAt(s, i + 1, j - 1)
        /\ NoSpaceNoAt(s, j + 1, Len(s))

\* String.prototype.trim
RECURSIVE Trim(_)
Trim(s) ==
    IF s = <<>> THEN s
    ELSE IF IsWhitespace(Head(s)) THEN Trim(Tail(s))
    ELSE IF IsWhitespace(s[Len(s)]) THEN Trim(SubSeq(s, 1, Len(s) - 1))
    ELSE s

\* String.prototype.toLowerCase, over the capitals of the addresses used here.
ToLowerCase(s) ==
    LET LowerOf == ("A" :> "a") @@ ("B" :> "b") @@ ("C" :> "c")
    IN  [i \in 1..Len(s) |->
            IF s[i] \in DOMAIN LowerOf THEN LowerOf[s[i]] ELSE s[i]]

\* encodeURIComponent: letters, digits and - _ . ! ~ * ' ( ) stay, every
\* other character becomes its percent-encoded UTF-8 bytes.
RECURSIVE encodeURIComponent(_)
encodeURIComponent(s) ==
    LET PercentOf == ("@" :> <<"%", "4", "0">>) @@ ("+" :> <<"%", "2", "B">>)
                        @@ (" " :> <<"%", "2", "0">>)
    IN  IF s = <<>> THEN <<>>
        ELSE (IF Head(s) \in DOMAIN PercentOf THEN PercentOf[Head(s)]
              ELSE <<Head(s)>>)
                \o encodeURIComponent(Tail(s))

\* import.meta.env as the subscribe endpoint reads it.
SubscribeEnvironments ==
    [BREVO_API_KEY : {Undefined, Str("xkeysib")},
     BREVO_LIST_ID : {Undefined, Chars(<<"3">>), Chars(<<"0">>), Chars(<<"3", "a">>),
                      Chars(<<"a", "b", "c">>)},
     BREVO_TEMPLATE_ID : {Undefined, Chars(<<>>), Chars(<<"1", "2">>), Chars(<<"x">>),
                          Chars(<<"7", "b">>)},
     SITE_URL : {Undefined, Str("https://blog.example")},
     PUBLIC_SITE_URL : {Undefined, Str("https://public.example")}]

\* The email property of the request body.
Emails ==
    {Undefined, Null, Num(7), Chars(<<>>),
     Chars(<<"a", "@", "b", ".", "c">>),
     Chars(<<"A", "@", "B", ".", "c">>),
     Chars(<<"a", "+", "x", "@", "b", ".", "c", ".", "d">>),
     Chars(<<"a", "b", ".", "c">>),
     Chars(<<"a", "@", "b", "c">>),
     Chars(<<"a", "@", "b", ".">>),
     Chars(<<"a", "@", ".", "c">>),
     Chars(<<"a", "@", "@", "b", ".", "c">>),
     Chars(<<" ", "a", "@", "b", ".", "c">>),
     Chars(<<"a", " ", "b", "@", "c", ".", "d">>)}

\* What request.json() is given: text that is not JSON, null, an object
\* with or without an email.
SubscribeBodies ==
    {NoBody, JsonBody(Null), JsonBody(EmptyObj)}
        \cup {JsonBody(Obj([email |-> email])) : email \in Emails \ {Undefined}}

\* The replies of GET /v3/contacts/<email>.
ContactListIds ==
    {Null, Num(3), Arr(<<>>), Arr(<<Num(3)>>), Arr(<<Num(5), Num(3)>>),
     Arr(<<Num(5)>>), Arr(<<Chars(<<"3">>)>>)}

ContactReplies ==
    {NetworkError, HttpReply(404, NoBody), HttpReply(401, NoBody),
     HttpReply(404, JsonBody(Obj([listIds |-> Arr(<<Num(3)>>)]))),
     HttpReply(200, NoBody), HttpReply(200, JsonBody(Null)),
     HttpReply(200, JsonBody(Obj([email |-> Str("a@b.c")])))}
        \cup {HttpReply(200, JsonBody(Obj([listIds |-> listIds]))) :
                listIds \in ContactListIds}

\* The replies of POST /v3/contacts/doubleOptinConfirmation; a body that is
\* not ok stands for a reply without a JSON content type, with an empty text
\* or with a text JSON.parse rejects.
OptinReplies ==
    {NetworkError, HttpReply(201, NoBody), HttpReply(204, NoBody),
     HttpReply(409, NoBody),
     HttpReply(400, JsonBody(Obj([message |-> Str("Invalid email")]))),
     HttpReply(400, NoBody), HttpReply(500, JsonBody(Null)),
     HttpReply(304, NoBody)}

SubscribeNoLocal ==
    [email |-> Undefined, brevoApiKey |-> Undefined, siteUrl |-> Undefined,
     templateId |-> Undefined, listId |-> Undefined,
     normalizedEmail |-> Undefined, contactUrl |-> Undefined,
     contactData |-> Undefined]

SubscribeNoReplies == [contact |-> NoReply, optin |-> NoReply]

SubscribeInit ==
    /\ env \in SubscribeEnvironments
    /\ now = 0
    /\ deliveries = 0
    /\ scheduled = 0
    /\ pc = "idle"
    /\ request = [body |-> NoBody]
    /\ local = SubscribeNoLocal
    /\ calls = <<>>
    /\ replies = SubscribeNoReplies
    /\ response = NoResponse
    /\ inflight = EmptyBag

\* The catch clause of the subscribe POST (lines 156-167).
SubscribeCatch(message) == Respond(500, [error |-> message])

\* A subscription request arrives (line 3).
SubscribeReceive(body) ==
    /\ pc = "idle"
    /\ request' = [body |-> body]
    /\ pc' = "validate"
    /\ UNCHANGED <<inflight, env, now, deliveries, scheduled, local, calls, replies, response>>

\* `const { email } = await request.json()` and the two validations
\* (lines 5-21).
Validate ==
    /\ pc = "validate"
    /\ IF ~request.body.ok
       THEN SubscribeCatch(Str("Unexpected end of JSON input")) /\ UNCHANGED local
       ELSE IF Throws(request.body.v)
       THEN SubscribeCatch(Str("Cannot destructure property 'email'"))
            /\ UNCHANGED local
       ELSE LET email == Prop(request.body.v, "email")
            IN  IF ~Truthy(email) \/ email.t # "chars"
                THEN Respond(400, [error |-> Str("Email is required")])
                     /\ UNCHANGED local
                ELSE IF ~emailRegex(email.c)
                THEN Respond(400, [error |-> Str("Invalid email format")])
                     /\ UNCHANGED local
                ELSE /\ local' = [local EXCEPT !.email = email]
                     /\ pc' = "settings"
                     /\ UNCHANGED response
    /\ UNCHANGED <<inflight, env, now, deliveries, scheduled, request, calls, replies>>

\* The configuration and its checks (lines 24-57).
Settings ==
    /\ pc = "settings"
    /\ LET brevoApiKey == env.BREVO_API_KEY
           brevoListId == env.BREVO_LIST_ID
           brevoTemplateId == OrElse(env.BREVO_TEMPLATE_ID, Chars(<<"5">>))
           siteUrl == OrElse(env.SITE_URL,
                             OrElse(env.PUBLIC_SITE_URL,
                                    Str("https://thelearningmachine.dev")))
           templateId == ParseIntEnv(brevoTemplateId)
           listId == IF Truthy(brevoListId) THEN ParseIntEnv(brevoListId) ELSE Null
       IN  IF ~Truthy(brevoApiKey)
           THEN Respond(500, [error |-> Str("Newsletter service is not configured")])
                /\ UNCHANGED local
           ELSE IF templateId = NaN
           THEN Respond(400, [error |-> Str("Template ID is required for double opt-in")])
                /\ UNCHANGED local
           ELSE IF ~Truthy(listId) \/ listId = NaN
           THEN Respond(400, [error |-> Str("List ID is required for double opt-in")])
                /\ UNCHANGED local
           ELSE /\ local' = [local EXCEPT
                                !.brevoApiKey = brevoApiKey,
                                !.siteUrl = siteUrl,
                                !.templateId = templateId,
                                !.listId = listId,
                                !.normalizedEmail =
                                    Chars(ToLowerCase(Trim(local.email.c)))]
                /\ pc' = "contact"
                /\ UNCHANGED response
    /\ UNCHANGED <<inflight, env, now, deliveries, scheduled, request, calls, replies>>

\* The contact lookup is issued (lines 60-68).
ContactCall ==
    /\ pc = "contact"
    /\ local' = [local EXCEPT
                    !.contactUrl = Chars(encodeURIComponent(local.normalizedEmail.c))]
    /\ calls' = Append(calls, "contactGet")
    /\ pc' = "awaitContact"
    /\ UNCHANGED <<inflight, env, now, deliveries, scheduled, request, replies, response>>

\* contactInfo.listIds?.includes(listId) (line 72): "throws" when listIds is
\* neither nullish nor an array.
ListIdsInclude(contactInfo, listId) ==
    LET listIds == Prop(contactInfo, "listIds")
    IN  IF Throws(listIds) THEN "no"
        ELSE IF listIds.t # "arr" THEN "throws"
        ELSE IF \E i \in 1..Len(listIds.a) : listIds.a[i] = listId THEN "yes"
        ELSE "no"

\* ContactReturn as it would be if the lookup's answer were not looked at.
ContactReturnUnread(reply) ==
    /\ pc = "awaitContact"
    /\ replies' = [replies EXCEPT !.contact = reply]
    /\ IF ~reply.arrived
       THEN Respond(500, [error |-> Str("fetch failed")])
       ELSE pc' = "optin" /\ UNCHANGED response
    /\ UNCHANGED <<inflight, env, now, deliveries, scheduled, request, local, calls>>

\* The contact lookup returns (lines 60, 70-82).
ContactReturn(reply) ==
    /\ pc = "awaitContact"
    /\ replies' = [replies EXCEPT !.contact = reply]
    /\ IF ~reply.arrived
       THEN SubscribeCatch(Str("fetch failed"))
       ELSE IF ~Ok(reply)
       THEN pc' = "optin" /\ UNCHANGED response
       ELSE IF ~reply.body.ok
       THEN SubscribeCatch(Str("Unexpected end of JSON input"))
       ELSE IF Throws(reply.body.v)
       THEN SubscribeCatch(Str("Cannot read properties of null"))
       ELSE LET included == ListIdsInclude(reply.body.v, local.listId)
            IN  IF included = "throws"
                THEN SubscribeCatch(Str("contactInfo.listIds?.includes is not a function"))
                ELSE IF included = "yes"
                THEN Respond(200, [message |-> Str("Already subscribed! Enjoy :)"),
                                   success |-> Bool(TRUE),
                                   alreadySubscribed |-> Bool(TRUE)])
                ELSE pc' = "optin" /\ UNCHANGED response
    /\ UNCHANGED <<inflight, env, now, deliveries, scheduled, request, local, calls>>

\* The double opt-in request is built and issued (lines 85-104).
OptinCall ==
    /\ pc = "optin"
    /\ local' = [local EXCEPT
                    !.contactData =
                        [email |-> local.normalizedEmail,
                         includeListIds |-> <<local.listId>>,
                         templateId |-> local.templateId,
                         redirectionUrl |->
                            Str(local.siteUrl.v \o "/newsletter/confirmed"),
                         updateEnabled |-> Bool(TRUE)]]
    /\ calls' = Append(calls, "doubleOptin")
    /\ pc' = "awaitOptin"
    /\ UNCHANGED <<inflight, env, now, deliveries, scheduled, request, replies, response>>

\* The statuses a Response with a body cannot be built with: the Response
\* constructor throws a TypeError (line 141).
NullBodyStatuses == {101, 204, 205, 304}

\* The double opt-in request returns (lines 94, 107-155).
OptinReturn(reply) ==
    /\ pc = "awaitOptin"
    /\ replies' = [replies EXCEPT !.optin = reply]
    /\ IF ~reply.arrived
       THEN SubscribeCatch(Str("fetch failed"))
       ELSE IF Ok(reply)
       THEN Respond(200, [message |-> Str("Successfully subscribed! Please check your email to confirm your subscription."),
                          success |-> Bool(TRUE)])
       ELSE IF reply.status = 409
       THEN Respond(200, [message |-> Str("You are already subscribed to the newsletter. Enjoy :)"),
                          success |-> Bool(TRUE)])
       ELSE LET brevoData == IF reply.body.ok THEN reply.body.v ELSE EmptyObj
                errorMessage == OrElse(OptProp(brevoData, "message"),
                                       Str("Failed to subscribe to newsletter"))
            IN  IF reply.status \in NullBodyStatuses
                THEN SubscribeCatch(Str("Response with null body status cannot have body"))
                ELSE Respond(IF reply.status # 0 THEN reply.status ELSE 500,
                             [error |-> errorMessage])
    /\ UNCHANGED <<inflight, env, now, deliveries, scheduled, request, local, calls>>

SubscribeNext ==
    \/ \E body \in SubscribeBodies : SubscribeReceive(body)
    \/ Validate
    \/ Settings
    \/ ContactCall
    \/ \E reply \in ContactReplies : ContactReturn(reply)
    \/ OptinCall
    \/ \E reply \in OptinReplies : OptinReturn(reply)

SubscribeSpec == SubscribeInit /\ [][SubscribeNext]_vars

\* The double opt-in request has been sent.
OptinSent == \E i \in 1..Len(calls) : calls[i] = "doubleOptin"

\* The email of the request passed both validations.
EmailPassed ==
    /\ request.body.ok
    /\ ~Throws(request.body.v)
    /\ LET email == Prop(request.body.v, "email")
       IN  email.t = "chars" /\ email.c # <<>> /\ emailRegex(email.c)

\* A configuration value that is present and a decimal numeral throughout.
IsNumeral(value) ==
    /\ value.t = "chars"
    /\ value.c # <<>>
    /\ \A i \in 1..Len(value.c) : IsDigit(value.c[i])

\* A configuration value that is present and starts with a decimal digit.
HasLeadingDigit(value) ==
    /\ value.t = "chars"
    /\ value.c # <<>>
    /\ IsDigit(value.c[1])

\* The lookup was answered 2xx with a contact whose listIds hold the number
\* of the target list.
LookupShowsInList ==
    /\ Ok(replies.contact)
    /\ replies.contact.body.ok
    /\ LET listIds == Prop(replies.contact.body.v, "listIds")
       IN  /\ listIds.t = "arr"
           /\ \E i \in 1..Len(listIds.a) :
                listIds.a[i] = ParseIntEnv(env.BREVO_LIST_ID)

\* When the lookup shows the contact in the list, the answer is 200 with
\* alreadySubscribed true and no double opt-in request is sent.
AlreadySubscribedAnswer ==
    LookupShowsInList =>
        /\ pc = "done"
        /\ response.status = 200
        /\ "alreadySubscribed" \in DOMAIN response.body
        /\ response.body.alreadySubscribed = Bool(TRUE)
        /\ ~OptinSent

ValuesFreeOfPatterns ==
    \A key \in DOMAIN local.templateParams :
        \A i \in 1..Len(local.templateParams[key].p) :
            local.templateParams[key].p[i].k # "pat"

\* Some param value holds the placeholder text of a key of params.
ValueHoldsPlaceholder ==
    \E key \in DOMAIN local.templateParams :
        \E i \in 1..Len(local.templateParams[key].p) :
            /\ local.templateParams[key].p[i].k = "ph"
            /\ local.templateParams[key].p[i].s \in DOMAIN local.templateParams

\* The loop of lines 134-139 run over the keys in another order.
RECURSIVE SubstituteInOrder(_, _, _)
SubstituteInOrder(pieces, params, order) ==
    IF order = <<>> THEN pieces
    ELSE SubstituteInOrder(ReplaceAll(pieces, Head(order), params[Head(order)].p),
                           params, Tail(order))

\* The orders in which the keys of params can be processed.
KeyOrders ==
    {order \in [1..Len(ParamKeys) -> {ParamKeys[i] : i \in 1..Len(ParamKeys)}] :
        \A i, j \in 1..Len(ParamKeys) : i # j => order[i] # order[j]}

\* C27: substitution is single-pass and order-independent: text introduced by
\* a substituted value is never itself substituted, so placeholder text
\* inside a param value appears verbatim in the rendered HTML body and
\* subject, and processing the keys in any other order gives the same result.
C27_SinglePassOrderFree ==
    (pc = "campaign" /\ Ok(replies.template) /\ ValuesFreeOfPatterns) =>
        /\ local.template.htmlContent
              = Text(ExactRender(Prop(TemplateRecord, "htmlContent").p,
                                 local.templateParams))
        /\ local.template.subject
              = Text(ExactRender(Prop(TemplateRecord, "subject").p,
                                 local.templateParams))
        /\ \A order \in KeyOrders :
              /\ local.template.htmlContent
                    = Text(SubstituteInOrder(Prop(TemplateRecord, "htmlContent").p,
                                             local.templateParams, order))
              /\ local.template.subject
                    = Text(SubstituteInOrder(Prop(TemplateRecord, "subject").p,
                                             local.templateParams, order))

\* The same statement over the param values that hold no placeholder text.
C27_SinglePassWithoutNesting ==
    (pc = "campaign" /\ Ok(replies.template) /\ ValuesFreeOfPatterns
        /\ ~ValueHoldsPlaceholder) => C27_SinglePassOrderFree

====
